---- MODULE Spec2Model ----
(***************************************************************************)
(* Model of the winget output adapter (src/winget_client.py): the three    *)
(* tabular output parsers of WingetClient, applied to bounded input texts. *)
(*                                                                         *)
(* A string is a sequence of one-character strings.  A text is kept as the *)
(* sequence of its lines, i.e. the pieces between its '\n' characters, so  *)
(* str.split('\n') is the passage from the text to that sequence;          *)
(* str.strip() on the whole text is modelled on that sequence by           *)
(* StripSplit.                                                             *)
(***************************************************************************)
EXTENDS Integers, Sequences, FiniteSets, TLC

VARIABLES output, called, packages

\* the client and, per worker thread, one call of a facade operation
VARIABLES winget_exe, pc, op, child, ret, result, runs, spawned

parserVars == <<output, called, packages>>

facadeVars == <<winget_exe, pc, op, child, ret, result, runs, spawned>>

\* the application: the fields of WingetApp and the state of its widgets
\* that the handlers read and write, tab by tab
VARIABLES installed_packages_data, installed_table, installed_cursor_row,
          last_installed_cursor_row, selected_package_id, uninstall_btn_disabled,
          installed_search_input

VARIABLES updates_data, updates_table, updates_cursor_row, last_updates_cursor_row,
          selected_update_package_id, upgrade_btn_disabled, upgrade_all_btn_disabled,
          updates_search_input

VARIABLES search_table, search_cursor_row, last_search_cursor_row,
          selected_search_package_id, install_user_btn_disabled,
          install_system_btn_disabled, search_input

\* the workers started with run_worker; the handler that ran in the last
\* step; the fetch of installed packages that was started last
VARIABLES workers, event, latest_fetch

installedVars ==
  <<installed_packages_data, installed_table, installed_cursor_row,
    last_installed_cursor_row, selected_package_id, uninstall_btn_disabled,
    installed_search_input>>

updatesVars ==
  <<updates_data, updates_table, updates_cursor_row, last_updates_cursor_row,
    selected_update_package_id, upgrade_btn_disabled, upgrade_all_btn_disabled,
    updates_search_input>>

browseVars ==
  <<search_table, search_cursor_row, last_search_cursor_row,
    selected_search_package_id, install_user_btn_disabled,
    install_system_btn_disabled, search_input>>

appVars == <<installedVars, updatesVars, browseVars, workers, event, latest_fetch>>

vars == <<parserVars, facadeVars, appVars>>

(***************************************************************************)
(* Bounds of the input space.                                              *)
(***************************************************************************)
MaxFields == 5
MaxLines == 3
WideGap == 5
MaxCode == 2

(***************************************************************************)
(* Program constants.                                                      *)
(***************************************************************************)
MinGap == 2
MinLineLen == 10
ShortSourceLen == 20

(***************************************************************************)
(* Characters and strings.                                                 *)
(***************************************************************************)
Whitespace == {" ", "\t"}

Upper == <<"A", "B", "C", "D", "E", "F", "G", "H", "I", "J", "K", "L", "M", "N", "O", "P", "Q", "R", "S", "T", "U", "V", "W", "X", "Y", "Z">>

LowerOfUpper == <<"a", "b", "c", "d", "e", "f", "g", "h", "i", "j", "k", "l", "m", "n", "o", "p", "q", "r", "s", "t", "u", "v", "w", "x", "y", "z">>

LowerChar(c) ==
  IF \E i \in 1..Len(Upper) : Upper[i] = c
  THEN LowerOfUpper[CHOOSE i \in 1..Len(Upper) : Upper[i] = c]
  ELSE c

\* str.lower()
Lower(s) == [i \in 1..Len(s) |-> LowerChar(s[i])]

\* sub in s
Contains(sub, s) ==
  \E i \in 0..(Len(s) - Len(sub)) : SubSeq(s, i + 1, i + Len(sub)) = sub

\* s.startswith(prefix)
StartsWith(s, prefix) ==
  /\ Len(s) >= Len(prefix)
  /\ SubSeq(s, 1, Len(prefix)) = prefix

IsBlank(s) == \A i \in 1..Len(s) : s[i] \in Whitespace

\* str.lstrip(), str.rstrip(), str.strip() of one line
LStrip(s) ==
  IF IsBlank(s) THEN <<>>
  ELSE SubSeq(s, CHOOSE i \in 1..Len(s) :
                   /\ s[i] \notin Whitespace
                   /\ \A j \in 1..(i - 1) : s[j] \in Whitespace, Len(s))

RStrip(s) ==
  IF IsBlank(s) THEN <<>>
  ELSE SubSeq(s, 1, CHOOSE i \in 1..Len(s) :
                   /\ s[i] \notin Whitespace
                   /\ \A j \in (i + 1)..Len(s) : s[j] \in Whitespace)

Strip(s) == LStrip(RStrip(s))

(***************************************************************************)
(* lines = output.strip().split('\n')                                      *)
(* Stripping the text removes the blank lines at both ends together with   *)
(* the '\n' that delimit them, the leading whitespace of the first         *)
(* remaining line and the trailing whitespace of the last one; a text of   *)
(* whitespace alone splits into the single empty line.                     *)
(***************************************************************************)
StripSplit(text) ==
  IF \A i \in 1..Len(text) : IsBlank(text[i]) THEN << <<>> >>
  ELSE LET first == CHOOSE i \in 1..Len(text) :
                      /\ ~IsBlank(text[i])
                      /\ \A j \in 1..(i - 1) : IsBlank(text[j])
           last == CHOOSE i \in 1..Len(text) :
                      /\ ~IsBlank(text[i])
                      /\ \A j \in (i + 1)..Len(text) : IsBlank(text[j])
       IN [k \in 1..(last - first + 1) |->
             LET l == text[first + k - 1]
                 a == IF k = 1 THEN LStrip(l) ELSE l
             IN IF first + k - 1 = last THEN RStrip(a) ELSE a]

(***************************************************************************)
(* The separator scan: the index of the first line whose stripped content  *)
(* starts with '---', 0 when there is none (the code's -1).                *)
(***************************************************************************)
IsSeparator(line) == StartsWith(Strip(line), <<"-", "-", "-">>)

SeparatorIdx(lines) ==
  IF \E i \in 1..Len(lines) : IsSeparator(lines[i])
  THEN CHOOSE i \in 1..Len(lines) :
         /\ IsSeparator(lines[i])
         /\ \A j \in 1..(i - 1) : ~IsSeparator(lines[j])
  ELSE 0

\* mutant: the lines above the separator are kept as data lines
DataLines_WholeText(lines) == lines

\* data_lines = lines[separator_idx + 1:]
DataLines(lines) == SubSeq(lines, SeparatorIdx(lines) + 1, Len(lines))

(***************************************************************************)
(* The line filter, applied to the stripped line: empty lines, lines       *)
(* shorter than 10 characters and lines starting with - \ | / are skipped. *)
(***************************************************************************)
SkipPrefixes == {"-", "\\", "|", "/"}

\* mutant: the length test is missing
SkipLine_NoLength(line) ==
  \/ Len(line) = 0
  \/ line[1] \in SkipPrefixes

SkipLine(line) ==
  \/ Len(line) = 0
  \/ Len(line) < MinLineLen
  \/ line[1] \in SkipPrefixes

(***************************************************************************)
(* re.match of the column patterns.  A pattern is a sequence of elements:  *)
(*   "G"  a capturing lazy group  (.+?)                                    *)
(*   "S"  a greedy separator      \s{2,}                                   *)
(*   "O"  an optional tail        (?:\s{2,}(.+?))?                         *)
(* anchored at both ends.  The matcher follows the backtracking order of   *)
(* the regular expression engine: a lazy group grows from one character,   *)
(* a greedy separator shrinks from the whole whitespace run, an optional   *)
(* tail is tried before it is skipped; the first complete match wins.      *)
(* A match is the sequence of its group spans <<first, last>>; <<0, 0>>    *)
(* is a group that did not take part (match.group(n) is None).             *)
(***************************************************************************)
ListPattern == <<"G", "S", "G", "S", "G", "O", "O">>

SearchPattern == <<"G", "S", "G", "S", "G", "O", "O">>

UpgradePattern == <<"G", "S", "G", "S", "G", "S", "G", "S", "G">>

NoMatch == [ok |-> FALSE, groups |-> <<>>]

RECURSIVE WsRun(_, _)
WsRun(line, p) ==
  IF p > Len(line) \/ line[p] \notin Whitespace THEN 0
  ELSE 1 + WsRun(line, p + 1)

RECURSIVE ReFrom(_, _, _, _)
RECURSIVE LazyGroup(_, _, _, _, _)
RECURSIVE GreedySep(_, _, _, _, _)
RECURSIVE OptionalTail(_, _, _, _, _)

\* (.+?) taking n characters from p, then the rest of the pattern
LazyGroup(pat, line, k, p, n) ==
  IF p + n - 1 > Len(line) THEN NoMatch
  ELSE LET r == ReFrom(pat, line, k + 1, p + n)
       IN IF r.ok
          THEN [ok |-> TRUE, groups |-> << <<p, p + n - 1>> >> \o r.groups]
          ELSE LazyGroup(pat, line, k, p, n + 1)

\* \s{2,} taking n characters from p, then the rest of the pattern
GreedySep(pat, line, k, p, n) ==
  IF n < MinGap THEN NoMatch
  ELSE LET r == ReFrom(pat, line, k + 1, p + n)
       IN IF r.ok THEN r ELSE GreedySep(pat, line, k, p, n - 1)

\* (?:\s{2,}(.+?))? with the separator taking n characters from p
OptionalTail(pat, line, k, p, n) ==
  IF n < MinGap
  THEN LET r == ReFrom(pat, line, k + 1, p)
       IN IF r.ok
          THEN [ok |-> TRUE, groups |-> << <<0, 0>> >> \o r.groups]
          ELSE NoMatch
  ELSE LET r == LazyGroup(pat, line, k, p + n, 1)
       IN IF r.ok THEN r ELSE OptionalTail(pat, line, k, p, n - 1)

ReFrom(pat, line, k, p) ==
  IF k > Len(pat) THEN [ok |-> (p = Len(line) + 1), groups |-> <<>>]
  ELSE IF pat[k] = "G" THEN LazyGroup(pat, line, k, p, 1)
  ELSE IF pat[k] = "S" THEN GreedySep(pat, line, k, p, WsRun(line, p))
  ELSE OptionalTail(pat, line, k, p, WsRun(line, p))

\* re.match(pattern, line)
ReMatch(pat, line) == ReFrom(pat, line, 1, 1)

\* match.group(n).strip() if match.group(n) else ""
GroupOf(m, line, n) ==
  IF n > Len(m.groups) \/ m.groups[n] = <<0, 0>> THEN <<>>
  ELSE Strip(SubSeq(line, m.groups[n][1], m.groups[n][2]))

(***************************************************************************)
(* The Package built from a matching line, per parser.                     *)
(***************************************************************************)
Package(name, id, version, source, available_version) ==
  [name |-> name, id |-> id, version |-> version,
   source |-> source, available_version |-> available_version]

winget == <<"w", "i", "n", "g", "e", "t">>

msstore == <<"m", "s", "s", "t", "o", "r", "e">>

NonDataLabels ==
  { <<"C", "o", "m", "m", "a", "n", "d", ":">>, <<"T", "a", "g", ":">>, <<"T", "a", "g">> }

\* mutant: the catalog names are looked for without lower()
LooksLikeSource_CaseSensitive(group4) ==
  /\ group4 # <<>>
  /\ \/ Contains(winget, group4)
     \/ Contains(msstore, group4)
     \/ Len(group4) < ShortSourceLen

\* elif group4 and ("winget" in group4.lower() or ... or len(group4) < 20)
LooksLikeSource(group4) ==
  /\ group4 # <<>>
  /\ \/ Contains(winget, Lower(group4))
     \/ Contains(msstore, Lower(group4))
     \/ Len(group4) < ShortSourceLen

\* mutant: with both optional groups present, source and available_version
\* are taken from the wrong groups
ListPackage_Swapped(m, line) ==
  LET group4 == GroupOf(m, line, 4)
      group5 == GroupOf(m, line, 5)
      name == GroupOf(m, line, 1)
      id == GroupOf(m, line, 2)
      version == GroupOf(m, line, 3)
  IN IF group5 # <<>> THEN Package(name, id, version, group4, group5)
     ELSE IF LooksLikeSource(group4) THEN Package(name, id, version, group4, <<>>)
     ELSE Package(name, id, version, winget, group4)

ListPackage(m, line) ==
  LET group4 == GroupOf(m, line, 4)
      group5 == GroupOf(m, line, 5)
      name == GroupOf(m, line, 1)
      id == GroupOf(m, line, 2)
      version == GroupOf(m, line, 3)
  IN IF group5 # <<>> THEN Package(name, id, version, group5, group4)
     ELSE IF LooksLikeSource(group4) THEN Package(name, id, version, group4, <<>>)
     ELSE Package(name, id, version, winget, group4)

\* mutant: an absent group4 is taken for a short source
SearchPackage_EmptyIsSource(m, line) ==
  LET group4 == GroupOf(m, line, 4)
      group5 == GroupOf(m, line, 5)
      name == GroupOf(m, line, 1)
      id == GroupOf(m, line, 2)
      version == GroupOf(m, line, 3)
  IN IF group5 # <<>>
     THEN Package(name, id, version, group5,
                  IF group4 # <<>> /\ group4 \notin NonDataLabels THEN group4 ELSE <<>>)
     ELSE IF group4 = <<>> \/ LooksLikeSource(group4)
          THEN Package(name, id, version, group4, <<>>)
     ELSE Package(name, id, version, winget, group4)

SearchPackage(m, line) ==
  LET group4 == GroupOf(m, line, 4)
      group5 == GroupOf(m, line, 5)
      name == GroupOf(m, line, 1)
      id == GroupOf(m, line, 2)
      version == GroupOf(m, line, 3)
  IN IF group5 # <<>>
     THEN Package(name, id, version, group5,
                  IF group4 # <<>> /\ group4 \notin NonDataLabels THEN group4 ELSE <<>>)
     ELSE IF LooksLikeSource(group4) THEN Package(name, id, version, group4, <<>>)
     ELSE Package(name, id, version, winget, group4)

\* mutant: available_version and source are taken from the wrong groups
UpgradePackage_Swapped(m, line) ==
  Package(GroupOf(m, line, 1), GroupOf(m, line, 2), GroupOf(m, line, 3),
          GroupOf(m, line, 4), GroupOf(m, line, 5))

UpgradePackage(m, line) ==
  Package(GroupOf(m, line, 1), GroupOf(m, line, 2), GroupOf(m, line, 3),
          GroupOf(m, line, 5), GroupOf(m, line, 4))

PatternOf(kind) ==
  IF kind = "list" THEN ListPattern
  ELSE IF kind = "search" THEN SearchPattern
  ELSE UpgradePattern

PackageOf(kind, m, line) ==
  IF kind = "list" THEN ListPackage(m, line)
  ELSE IF kind = "search" THEN SearchPackage(m, line)
  ELSE UpgradePackage(m, line)

(***************************************************************************)
(* for line in data_lines: ... packages.append(Package(...))               *)
(***************************************************************************)
\* mutant: each new Package is put in front of the list
RECURSIVE ParseLoop_Prepend(_, _, _, _)
ParseLoop_Prepend(kind, data_lines, i, acc) ==
  IF i > Len(data_lines) THEN acc
  ELSE LET line == Strip(data_lines[i])
       IN IF SkipLine(line) THEN ParseLoop_Prepend(kind, data_lines, i + 1, acc)
          ELSE LET m == ReMatch(PatternOf(kind), line)
               IN IF m.ok
                  THEN ParseLoop_Prepend(kind, data_lines, i + 1,
                                         <<PackageOf(kind, m, line)>> \o acc)
                  ELSE ParseLoop_Prepend(kind, data_lines, i + 1, acc)

RECURSIVE ParseLoop(_, _, _, _)
ParseLoop(kind, data_lines, i, acc) ==
  IF i > Len(data_lines) THEN acc
  ELSE LET line == Strip(data_lines[i])
       IN IF SkipLine(line) THEN ParseLoop(kind, data_lines, i + 1, acc)
          ELSE LET m == ReMatch(PatternOf(kind), line)
               IN IF m.ok
                  THEN ParseLoop(kind, data_lines, i + 1,
                                 Append(acc, PackageOf(kind, m, line)))
                  ELSE ParseLoop(kind, data_lines, i + 1, acc)

\* mutant: the return on separator_idx == -1 is missing
ParseOutput_NoEarlyReturn(kind, text) ==
  ParseLoop(kind, DataLines(StripSplit(text)), 1, <<>>)

ParseOutput(kind, text) ==
  LET lines == StripSplit(text)
  IN IF SeparatorIdx(lines) = 0 THEN <<>>
     ELSE ParseLoop(kind, DataLines(lines), 1, <<>>)

parse_list_output(text) == ParseOutput("list", text)

parse_search_output(text) == ParseOutput("search", text)

parse_upgrade_output(text) == ParseOutput("upgrade", text)

(***************************************************************************)
(* The process runner, _run_command.  What subprocess.run does is the      *)
(* child's outcome: it exits with a code, stdout and stderr; it exceeds    *)
(* the timeout (TimeoutExpired, carrying what it wrote so far); it cannot  *)
(* be started (FileNotFoundError, PermissionError); or any other exception *)
(* e is raised.  The runner returns [raised, text, status]; raised is an   *)
(* exception leaving _run_command.                                         *)
(* A text is the sequence of its lines, the empty string being the single  *)
(* empty line.                                                             *)
(***************************************************************************)
EmptyText == << <<>> >>

TimedOutMsg ==
  <<"C", "o", "m", "m", "a", "n", "d", " ", "t", "i", "m", "e", "d", " ",
    "o", "u", "t">>

NotFoundMsg ==
  <<"w", "i", "n", "g", "e", "t", " ", "c", "o", "m", "m", "a", "n", "d",
    " ", "n", "o", "t", " ", "f", "o", "u", "n", "d", ".", " ", "I", "s",
    " ", "W", "i", "n", "d", "o", "w", "s", " ", "P", "a", "c", "k", "a",
    "g", "e", " ", "M", "a", "n", "a", "g", "e", "r", " ", "i", "n", "s",
    "t", "a", "l", "l", "e", "d", "?">>

PermissionMsg ==
  <<"P", "e", "r", "m", "i", "s", "s", "i", "o", "n", " ", "d", "e", "n",
    "i", "e", "d", ".", " ", "A", "d", "m", "i", "n", "i", "s", "t", "r",
    "a", "t", "o", "r", " ", "p", "r", "i", "v", "i", "l", "e", "g", "e",
    "s", " ", "m", "a", "y", " ", "b", "e", " ", "r", "e", "q", "u", "i",
    "r", "e", "d", ".">>

ErrorPrefix ==
  <<"E", "r", "r", "o", "r", ":", " ">>

StderrMarker ==
  <<"S", "T", "D", "E", "R", "R", ":", " ">>

ErrorWord ==
  <<"E", "r", "r", "o", "r">>

PermissionWord ==
  <<"P", "e", "r", "m", "i", "s", "s", "i", "o", "n">>

CommandFailed ==
  <<"C", "o", "m", "m", "a", "n", "d", " ", "f", "a", "i", "l", "e", "d",
    " ", "w", "i", "t", "h", " ", "r", "e", "t", "u", "r", "n", " ", "c",
    "o", "d", "e", " ">>

InstallationFailed ==
  <<"I", "n", "s", "t", "a", "l", "l", "a", "t", "i", "o", "n", " ", "f",
    "a", "i", "l", "e", "d", " ", "w", "i", "t", "h", " ", "r", "e", "t",
    "u", "r", "n", " ", "c", "o", "d", "e", " ">>

UninstallationFailed ==
  <<"U", "n", "i", "n", "s", "t", "a", "l", "l", "a", "t", "i", "o", "n",
    " ", "f", "a", "i", "l", "e", "d", " ", "w", "i", "t", "h", " ", "r",
    "e", "t", "u", "r", "n", " ", "c", "o", "d", "e", " ">>

UpgradeFailed ==
  <<"U", "p", "g", "r", "a", "d", "e", " ", "f", "a", "i", "l", "e", "d",
    " ", "w", "i", "t", "h", " ", "r", "e", "t", "u", "r", "n", " ", "c",
    "o", "d", "e", " ">>

DecimalDigits == <<"0", "1", "2", "3", "4", "5", "6", "7", "8", "9">>

\* str(n) for n >= 0
RECURSIVE IntToStr(_)
IntToStr(n) ==
  IF n < Len(DecimalDigits) THEN <<DecimalDigits[n + 1]>>
  ELSE IntToStr(n \div Len(DecimalDigits)) \o <<DecimalDigits[(n % Len(DecimalDigits)) + 1]>>

\* sub in text, for a sub without '\n'
TextContains(sub, text) == \E i \in 1..Len(text) : Contains(sub, text[i])

\* f"{prefix}{b}"
Prefixed(prefix, b) == << prefix \o Head(b) >> \o Tail(b)

\* f"{a}\n{prefix}{b}"
JoinOnNewLine(a, prefix, b) == a \o Prefixed(prefix, b)

Returned(text, status) == [raised |-> FALSE, text |-> text, status |-> status]

Raised == [raised |-> TRUE, text |-> EmptyText, status |-> 0 - 1]

\* mutant: the last handler, except Exception, is missing
RunCommand_NoCatchAll(o) ==
  IF o.kind = "exit"
  THEN IF o.code # 0 /\ o.stderr # EmptyText
       THEN Returned(JoinOnNewLine(o.stdout, StderrMarker, o.stderr), o.code)
       ELSE Returned(o.stdout, o.code)
  ELSE IF o.kind = "timeout" THEN Returned(<<TimedOutMsg>>, 1)
  ELSE IF o.kind = "notfound" THEN Returned(<<NotFoundMsg>>, 1)
  ELSE IF o.kind = "permission" THEN Returned(<<PermissionMsg>>, 1)
  ELSE Raised

\* mutant: on a timeout the output captured so far is returned
RunCommand_SalvagePartial(o) ==
  IF o.kind = "exit"
  THEN IF o.code # 0 /\ o.stderr # EmptyText
       THEN Returned(JoinOnNewLine(o.stdout, StderrMarker, o.stderr), o.code)
       ELSE Returned(o.stdout, o.code)
  ELSE IF o.kind = "timeout" THEN Returned(o.stdout, 1)
  ELSE IF o.kind = "notfound" THEN Returned(<<NotFoundMsg>>, 1)
  ELSE IF o.kind = "permission" THEN Returned(<<PermissionMsg>>, 1)
  ELSE Returned(Prefixed(ErrorPrefix, o.e), 1)

\* mutant: stderr is appended whatever the return code
RunCommand_StderrAlways(o) ==
  IF o.kind = "exit"
  THEN IF o.stderr # EmptyText
       THEN Returned(JoinOnNewLine(o.stdout, StderrMarker, o.stderr), o.code)
       ELSE Returned(o.stdout, o.code)
  ELSE IF o.kind = "timeout" THEN Returned(<<TimedOutMsg>>, 1)
  ELSE IF o.kind = "notfound" THEN Returned(<<NotFoundMsg>>, 1)
  ELSE IF o.kind = "permission" THEN Returned(<<PermissionMsg>>, 1)
  ELSE Returned(Prefixed(ErrorPrefix, o.e), 1)

RunCommand(o) ==
  IF o.kind = "exit"
  THEN IF o.code # 0 /\ o.stderr # EmptyText
       THEN Returned(JoinOnNewLine(o.stdout, StderrMarker, o.stderr), o.code)
       ELSE Returned(o.stdout, o.code)
  ELSE IF o.kind = "timeout" THEN Returned(<<TimedOutMsg>>, 1)
  ELSE IF o.kind = "notfound" THEN Returned(<<NotFoundMsg>>, 1)
  ELSE IF o.kind = "permission" THEN Returned(<<PermissionMsg>>, 1)
  ELSE Returned(Prefixed(ErrorPrefix, o.e), 1)

(***************************************************************************)
(* The facade operations, after _run_command has returned (stdout,         *)
(* return_code).  The field parsed of a result tells whether the          *)
(* operation called a parser.                                              *)
(***************************************************************************)
\* None, told from every text: a text has at least one line
None == <<>>

FetchOps == {"list_installed", "search", "check_for_updates"}

MutatingOps == {"install", "uninstall", "upgrade"}

FacadeOps == FetchOps \cup MutatingOps

FailedWord(o) ==
  IF o = "install" THEN InstallationFailed
  ELSE IF o = "uninstall" THEN UninstallationFailed
  ELSE IF o = "upgrade" THEN UpgradeFailed
  ELSE CommandFailed

\* mutant: the text of the runner is the error, whatever it holds
ErrorMsg_Verbatim(o, stdout, return_code) == stdout

\* stdout if "Error" in stdout or "Permission" in stdout else f"... {return_code}"
ErrorMsg(o, stdout, return_code) ==
  IF TextContains(ErrorWord, stdout) \/ TextContains(PermissionWord, stdout)
  THEN stdout
  ELSE << FailedWord(o) \o IntToStr(return_code) >>

ParserOf(o, stdout) ==
  IF o = "list_installed" THEN parse_list_output(stdout)
  ELSE IF o = "search" THEN parse_search_output(stdout)
  ELSE parse_upgrade_output(stdout)

\* mutant: the output of a failed command is parsed all the same
FetchResult_ParseOnFailure(o, stdout, return_code) ==
  IF return_code # 0
  THEN [packages |-> ParserOf(o, stdout), error |-> ErrorMsg(o, stdout, return_code),
        parsed |-> TRUE]
  ELSE [packages |-> ParserOf(o, stdout), error |-> None, parsed |-> TRUE]

\* mutant: an empty parse is reported as an error
FetchResult_EmptyIsError(o, stdout, return_code) ==
  IF return_code # 0 \/ ParserOf(o, stdout) = <<>>
  THEN [packages |-> <<>>, error |-> ErrorMsg(o, stdout, return_code), parsed |-> FALSE]
  ELSE [packages |-> ParserOf(o, stdout), error |-> None, parsed |-> TRUE]

\* list_installed, search, check_for_updates
FetchResult(o, stdout, return_code) ==
  IF return_code # 0
  THEN [packages |-> <<>>, error |-> ErrorMsg(o, stdout, return_code), parsed |-> FALSE]
  ELSE [packages |-> ParserOf(o, stdout), error |-> None, parsed |-> TRUE]

\* mutant: only return code 1 counts as a failure
MutatingResult_OnlyOneFails(o, stdout, return_code) ==
  IF return_code = 1
  THEN [success |-> FALSE, error |-> ErrorMsg(o, stdout, return_code), parsed |-> FALSE]
  ELSE [success |-> TRUE, error |-> None, parsed |-> FALSE]

\* install, uninstall, upgrade
MutatingResult(o, stdout, return_code) ==
  IF return_code # 0
  THEN [success |-> FALSE, error |-> ErrorMsg(o, stdout, return_code), parsed |-> FALSE]
  ELSE [success |-> TRUE, error |-> None, parsed |-> FALSE]

FacadeResult(o, stdout, return_code) ==
  IF o \in FetchOps THEN FetchResult(o, stdout, return_code)
  ELSE MutatingResult(o, stdout, return_code)

(***************************************************************************)
(* Input texts.  A line is a row of fields separated by gaps of spaces;    *)
(* the fields offered at each column are taken from winget's own output    *)
(* (names with and without a single inner space, spinner prefixes,         *)
(* version strings, catalog names, footer labels).                         *)
(***************************************************************************)
Spaces(n) == [i \in 1..n |-> " "]

Git == <<"G", "i", "t">>

Zip == <<"7", "-", "Z", "i", "p", " ", "2", "2", ".", "0", "1">>

GitId == <<"G", "i", "t", ".", "G", "i", "t">>

V2400 == <<"2", ".", "4", "0", ".", "0">>

V2420 == <<"2", ".", "4", "2", ".", "0">>

WinGetRepo == <<"W", "i", "n", "G", "e", "t", "-", "C", "o", "m", "m", "u", "n", "i", "t", "y", "-", "R", "e", "p", "o">>

Preview == <<"1", ".", "2", ".", "3", ".", "4", "5", "6", "7", "-", "p", "r", "e", "v", "i", "e", "w", "-", "b", "u", "i", "l", "d">>

FieldAt(col) ==
  IF col = 1 THEN {Git, Zip, <<"-">> \o Git}
  ELSE IF col = 2 THEN {GitId}
  ELSE IF col = 3 THEN {V2400}
  ELSE IF col = 4 THEN {V2420, WinGetRepo, Preview} \cup NonDataLabels
  ELSE IF col = 5 THEN {winget, <<"T", "a", "g">>}
  ELSE {<<"x">>}

GapWidths == {MinGap, WideGap}

RECURSIVE Rows(_)
Rows(n) ==
  IF n = 1 THEN FieldAt(1)
  ELSE {r \o Spaces(g) \o f : r \in Rows(n - 1), g \in GapWidths, f \in FieldAt(n)}

GitRow ==
  Git \o Spaces(MinGap) \o GitId \o Spaces(MinGap) \o V2400 \o Spaces(MinGap)
    \o V2420 \o Spaces(MinGap) \o winget

ZipRow ==
  Zip \o Spaces(MinGap) \o <<"7", "z", "i", "p">> \o Spaces(MinGap)
    \o <<"2", "2", ".", "0", "1">> \o Spaces(MinGap) \o winget

\* rows too short to pass the length filter, a row indented by a tab, rows
\* behind each of the other spinner characters, and rows with a tab next to
\* a space inside the first field
ExtraRows ==
  { Git \o Spaces(MinGap) \o <<"b">> \o Spaces(MinGap) \o <<"c">>,
    <<"a">> \o Spaces(MinGap) \o <<"b">> \o Spaces(MinGap) \o <<"c">>,
    <<"\t">> \o Git \o Spaces(MinGap) \o GitId \o Spaces(MinGap) \o V2400 \o <<" ">>,
    <<"\\">> \o GitRow, <<"|">> \o GitRow, <<"/">> \o GitRow,
    <<"\\">> \o ZipRow, <<"|">> \o ZipRow, <<"/">> \o ZipRow,
    Git \o <<" ", "\t">> \o GitRow,
    Git \o <<" ", "\t">> \o ZipRow }

RowSet == ExtraRows \cup UNION {Rows(n) : n \in 1..MaxFields}

HeaderLine ==
  <<"N", "a", "m", "e">> \o Spaces(MinGap) \o <<"I", "d">> \o Spaces(MinGap)
    \o <<"V", "e", "r", "s", "i", "o", "n">> \o Spaces(MinGap)
    \o <<"A", "v", "a", "i", "l", "a", "b", "l", "e">> \o Spaces(MinGap)
    \o <<"S", "o", "u", "r", "c", "e">>

SeparatorLine == <<"-", "-", "-", "-", "-">>

\* one table: header, separator, one data row
TableTexts == {<<HeaderLine, SeparatorLine, row>> : row \in RowSet}

\* free texts: any sequence of up to MaxLines of these lines
SampleLines ==
  { <<" ">>, SeparatorLine, <<" ">> \o SeparatorLine, HeaderLine, GitRow, ZipRow }

RECURSIVE TextsOfLen(_)
TextsOfLen(n) ==
  IF n = 0 THEN {<<>>}
  ELSE {Append(t, l) : t \in TextsOfLen(n - 1), l \in SampleLines}

FreeTexts == UNION {TextsOfLen(n) : n \in 0..MaxLines}

Texts == TableTexts \cup FreeTexts

Parsers == {"list", "search", "upgrade"}

(***************************************************************************)
(* The state: the text handed to a parser, the parser last called on it    *)
(* and the list it returned.                                               *)
(***************************************************************************)
Threads == {"worker1", "worker2"}

\* __init__, and no facade call under way
FacadeIdle ==
  /\ winget_exe = winget
  /\ pc = [t \in Threads |-> "idle"]
  /\ op = [t \in Threads |-> "None"]
  /\ child = [t \in Threads |-> "None"]
  /\ ret = [t \in Threads |-> "None"]
  /\ result = [t \in Threads |-> "None"]
  /\ runs = [t \in Threads |-> 0]
  /\ spawned = [t \in Threads |-> 0]

Workers == {"w1", "w2"}

\* Optional[str] None, told from every string: no character is "None"
NoId == <<"None">>

\* Optional[int] None
NoRow == 0 - 1

NoWorker == [kind |-> "idle"]

NoEvent == [handler |-> "none"]

\* WingetApp.__init__ and the widgets as the setup_*_tab methods build them
AppConstructed ==
  /\ installed_packages_data = <<>>
  /\ installed_table = <<>>
  /\ installed_cursor_row = 0
  /\ last_installed_cursor_row = NoRow
  /\ selected_package_id = NoId
  /\ uninstall_btn_disabled = TRUE
  /\ installed_search_input = <<>>
  /\ updates_data = <<>>
  /\ updates_table = <<>>
  /\ updates_cursor_row = 0
  /\ last_updates_cursor_row = NoRow
  /\ selected_update_package_id = NoId
  /\ upgrade_btn_disabled = TRUE
  /\ upgrade_all_btn_disabled = TRUE
  /\ updates_search_input = <<>>
  /\ search_table = <<>>
  /\ search_cursor_row = 0
  /\ last_search_cursor_row = NoRow
  /\ selected_search_package_id = NoId
  /\ install_user_btn_disabled = TRUE
  /\ install_system_btn_disabled = TRUE
  /\ search_input = <<>>
  /\ event = NoEvent

AppIdle ==
  /\ AppConstructed
  /\ workers = [w \in Workers |-> NoWorker]
  /\ latest_fetch = [state |-> "none"]

Init ==
  /\ output \in Texts
  /\ called = "none"
  /\ packages = <<>>
  /\ FacadeIdle
  /\ AppIdle

\* mutant: the list of packages outlives the call and is appended to
ParseList_KeepsList ==
  /\ Len(packages) <= MaxLines
  /\ called' = "list"
  /\ packages' = packages \o parse_list_output(output)
  /\ UNCHANGED <<output, facadeVars, appVars>>

ParseList ==
  /\ called' = "list"
  /\ packages' = parse_list_output(output)
  /\ UNCHANGED <<output, facadeVars, appVars>>

ParseSearch ==
  /\ called' = "search"
  /\ packages' = parse_search_output(output)
  /\ UNCHANGED <<output, facadeVars, appVars>>

ParseUpgrade ==
  /\ called' = "upgrade"
  /\ packages' = parse_upgrade_output(output)
  /\ UNCHANGED <<output, facadeVars, appVars>>

Next == ParseList \/ ParseSearch \/ ParseUpgrade

Spec == Init /\ [][Next]_vars

(***************************************************************************)
(* Facade calls on worker threads.  Each thread runs one call at a time:   *)
(*   idle/done -Call-> called -Spawn-> running -ChildEnds-> ran -Return->  *)
(*   done,  or  running -ChildEnds-> raised  when _run_command raises.     *)
(* op, child, ret and result are the locals of the call; runs counts the   *)
(* calls of subprocess.run the call has made and spawned the child         *)
(* processes these have started.                                           *)
(***************************************************************************)
TableText == <<HeaderLine, SeparatorLine, GitRow>>

NoPackageText == << <<"N", "o", " ", "p", "a", "c", "k", "a", "g", "e", " ", "f", "o", "u", "n", "d">> >>

BoomText == << <<"b", "o", "o", "m">> >>

DeniedText ==
  << <<"P", "e", "r", "m", "i", "s", "s", "i", "o", "n", " ", "d", "e", "n", "i", "e", "d">> >>

ChildStdout == {TableText, NoPackageText}

ChildStderr == {EmptyText, DeniedText}

\* what subprocess.run can end with: the child exits; TimeoutExpired, with
\* the output written so far; FileNotFoundError; PermissionError; any other
\* Exception, raised before or after the child was started
Outcomes ==
  {[kind |-> "exit", code |-> c, stdout |-> so, stderr |-> se] :
     c \in 0..MaxCode, so \in ChildStdout, se \in ChildStderr}
  \cup {[kind |-> "timeout", stdout |-> EmptyText, stderr |-> EmptyText],
        [kind |-> "timeout", stdout |-> TableText, stderr |-> DeniedText]}
  \cup {[kind |-> "notfound"], [kind |-> "permission"]}
  \cup {[kind |-> "other", e |-> BoomText, started |-> b] : b \in BOOLEAN}

\* FileNotFoundError and PermissionError are raised when no process could
\* be created
Started(o) == o.kind \in {"exit", "timeout"} \/ (o.kind = "other" /\ o.started)

InitFacade ==
  /\ output = <<>>
  /\ called = "none"
  /\ packages = <<>>
  /\ FacadeIdle
  /\ AppIdle

\* a worker thread enters one of the six operations
Call(t, o) ==
  /\ pc[t] \in {"idle", "done"}
  /\ pc' = [pc EXCEPT ![t] = "called"]
  /\ op' = [op EXCEPT ![t] = o]
  /\ child' = [child EXCEPT ![t] = "None"]
  /\ ret' = [ret EXCEPT ![t] = "None"]
  /\ result' = [result EXCEPT ![t] = "None"]
  /\ runs' = [runs EXCEPT ![t] = 0]
  /\ spawned' = [spawned EXCEPT ![t] = 0]
  /\ UNCHANGED <<winget_exe, parserVars, appVars>>

\* self._run_command(...): subprocess.run([self.winget_exe] + args, ...)
Run(t) ==
  /\ pc[t] = "called"
  /\ pc' = [pc EXCEPT ![t] = "running"]
  /\ runs' = [runs EXCEPT ![t] = @ + 1]
  /\ UNCHANGED <<winget_exe, op, child, ret, result, spawned, parserVars, appVars>>

\* mutant: the value _run_command returns is kept on the client, one slot
\* for all threads
ChildEnds_SharedSlot(t) ==
  /\ pc[t] = "running"
  /\ \E o \in Outcomes :
       /\ child' = [child EXCEPT ![t] = o]
       /\ ret' = [u \in Threads |-> IF u = t \/ pc[u] = "ran" THEN RunCommand(o) ELSE ret[u]]
       /\ pc' = [pc EXCEPT ![t] = IF RunCommand(o).raised THEN "raised" ELSE "ran"]
       /\ spawned' = [spawned EXCEPT ![t] = IF Started(o) THEN @ + 1 ELSE @]
  /\ UNCHANGED <<winget_exe, op, result, runs, parserVars, appVars>>

\* subprocess.run ends with an outcome and _run_command returns
ChildEnds(t) ==
  /\ pc[t] = "running"
  /\ \E o \in Outcomes :
       /\ child' = [child EXCEPT ![t] = o]
       /\ ret' = [ret EXCEPT ![t] = RunCommand(o)]
       /\ pc' = [pc EXCEPT ![t] = IF RunCommand(o).raised THEN "raised" ELSE "ran"]
       /\ spawned' = [spawned EXCEPT ![t] = IF Started(o) THEN @ + 1 ELSE @]
  /\ UNCHANGED <<winget_exe, op, result, runs, parserVars, appVars>>

\* mutant: a failed command is run again
Return_Retry(t) ==
  /\ pc[t] = "ran"
  /\ IF ret[t].status # 0 /\ runs[t] < 2
     THEN /\ pc' = [pc EXCEPT ![t] = "called"]
          /\ UNCHANGED result
     ELSE /\ result' = [result EXCEPT ![t] = FacadeResult(op[t], ret[t].text, ret[t].status)]
          /\ pc' = [pc EXCEPT ![t] = "done"]
  /\ UNCHANGED <<winget_exe, op, child, ret, runs, spawned, parserVars, appVars>>

\* the operation returns its pair to the caller
Return(t) ==
  /\ pc[t] = "ran"
  /\ result' = [result EXCEPT ![t] = FacadeResult(op[t], ret[t].text, ret[t].status)]
  /\ pc' = [pc EXCEPT ![t] = "done"]
  /\ UNCHANGED <<winget_exe, op, child, ret, runs, spawned, parserVars, appVars>>

NextFacade ==
  \E t \in Threads :
    \/ \E o \in FacadeOps : Call(t, o)
    \/ Run(t)
    \/ ChildEnds(t)
    \/ Return(t)

SpecFacade == InitFacade /\ [][NextFacade]_vars

(***************************************************************************)
(* The application (src/main.py).  A table is the sequence of its rows, a  *)
(* row the tuple of its cells; cursor_row counts from 0 and is 0 after     *)
(* DataTable.clear().  A worker is started by run_worker(..., thread=True, *)
(* exclusive=False), runs its function on a thread of its own, and its     *)
(* on_complete runs in the event loop once check_worker_result finds it    *)
(* finished.  At most Cardinality(Workers) workers are under way.          *)
(***************************************************************************)
ZipUpgradeRow ==
  Zip \o Spaces(MinGap) \o <<"7", "z", "i", "p">> \o Spaces(MinGap)
    \o <<"2", "2", ".", "0", "1">> \o Spaces(MinGap)
    \o <<"2", "3", ".", "0", "1">> \o Spaces(MinGap) \o winget

\* an upgradable package whose name and id are WideGap spaces apart
WideGapRow ==
  Git \o Spaces(WideGap) \o GitId \o Spaces(MinGap) \o V2400 \o Spaces(MinGap) \o V2420

Exit0(stdout) == [kind |-> "exit", code |-> 0, stdout |-> stdout, stderr |-> EmptyText]

TimedOut == [kind |-> "timeout", stdout |-> EmptyText, stderr |-> EmptyText]

OtherFailure == [kind |-> "other", e |-> BoomText, started |-> TRUE]

\* the outcomes of the child process that each operation of the client is
\* run with
OutcomesOf(o) ==
  IF o = "list_installed"
  THEN {Exit0(<<HeaderLine, SeparatorLine, GitRow, ZipRow>>), TimedOut}
  ELSE IF o = "check_for_updates"
  THEN {Exit0(<<HeaderLine, SeparatorLine, WideGapRow, ZipUpgradeRow>>), TimedOut}
  ELSE IF o = "search" THEN {Exit0(TableText), OtherFailure}
  ELSE {Exit0(EmptyText), TimedOut}

\* self.winget_client.<o>(...), with the outcome its child process has
ClientCall(o, outcome) ==
  LET r == RunCommand(outcome) IN FacadeResult(o, r.text, r.status)

\* the values typed into the three inputs
FilterQueries == {<<>>, <<" ", "Z", "I", "P">>, <<"2", ".", "4", "2">>}

SearchQueries == {<<>>, <<" ", " ">>, <<"g", "i", "t", " ">>}

\* a text as one string
RECURSIVE JoinLines(_)
JoinLines(text) ==
  IF Len(text) = 1 THEN text[1]
  ELSE text[1] \o <<"\n">> \o JoinLines(Tail(text))

\* bool(s) of an Optional[str]
Truthy(s) == s # NoId /\ s # <<>>

Free(w) == workers[w].kind = "idle"

SomeFree == \E w \in Workers : Free(w)

\* run_worker: the slot the new worker takes
FreeSlot == CHOOSE w \in Workers : Free(w)

Ev(handler, id) == [handler |-> handler, id |-> id, started |-> FALSE]

Begun(ev) == [ev EXCEPT !.started = TRUE]

\* str(row[1]) of the row under the cursor, None when the table has no such row
CursorId(table, cursor_row) ==
  IF cursor_row < Len(table) THEN table[cursor_row + 1][2] ELSE NoId

\* table.add_row(pkg.name, pkg.id, pkg.version, pkg.source)
InstalledRow(pkg) == <<pkg.name, pkg.id, pkg.version, pkg.source>>

UpdatesRow(pkg) == <<pkg.name, pkg.id, pkg.version, pkg.available_version, pkg.source>>

SearchRow(pkg) == <<pkg.name, pkg.id, pkg.version, pkg.source>>

InstalledRows(data) == [i \in 1..Len(data) |-> InstalledRow(data[i])]

UpdatesRows(data) == [i \in 1..Len(data) |-> UpdatesRow(data[i])]

SearchRows(data) == [i \in 1..Len(data) |-> SearchRow(data[i])]

\* the test of filter_installed_table
InstalledMatch(query, pkg) ==
  \/ Contains(query, Lower(pkg.name))
  \/ Contains(query, Lower(pkg.id))
  \/ Contains(query, Lower(pkg.version))
  \/ Contains(query, Lower(pkg.source))

\* the test of filter_updates_table
UpdatesMatch(query, pkg) ==
  \/ Contains(query, Lower(pkg.name))
  \/ Contains(query, Lower(pkg.id))
  \/ Contains(query, Lower(pkg.version))
  \/ Contains(query, Lower(pkg.available_version))
  \/ Contains(query, Lower(pkg.source))

\* the rows filter_installed_table leaves in the table
FilterInstalled(value, data) ==
  LET query == Lower(Strip(value))
  IN IF query = <<>> THEN InstalledRows(data)
     ELSE InstalledRows(SelectSeq(data, LAMBDA pkg : InstalledMatch(query, pkg)))

\* the rows filter_updates_table leaves in the table
FilterUpdates(value, data) ==
  LET query == Lower(Strip(value))
  IN IF query = <<>> THEN UpdatesRows(data)
     ELSE UpdatesRows(SelectSeq(data, LAMBDA pkg : UpdatesMatch(query, pkg)))

(***************************************************************************)
(* check_table_selections, for one table: the remembered cursor row, the   *)
(* selected id and the disabled flag of the table's buttons afterwards.    *)
(* by_key tells whether DataTable.get_row accepts the cursor row as a row  *)
(* key; when it raises, the handler reads the cell with get_cell_at and    *)
(* keeps it only if it is not empty.                                       *)
(***************************************************************************)
CheckTable(table, cursor_row, last_row, selected, disabled, by_key) ==
  IF cursor_row = last_row
  THEN [last |-> last_row, selected |-> selected, disabled |-> disabled]
  ELSE IF cursor_row >= Len(table)
  THEN [last |-> cursor_row, selected |-> selected, disabled |-> disabled]
  ELSE IF by_key \/ table[cursor_row + 1][2] # <<>>
  THEN [last |-> cursor_row, selected |-> table[cursor_row + 1][2], disabled |-> FALSE]
  ELSE [last |-> cursor_row, selected |-> selected, disabled |-> disabled]

\* self.set_interval(0.1, self.check_table_selections)
check_table_selections ==
  \E by_key \in BOOLEAN :
    LET i == CheckTable(installed_table, installed_cursor_row, last_installed_cursor_row,
                        selected_package_id, uninstall_btn_disabled, by_key)
        s == CheckTable(search_table, search_cursor_row, last_search_cursor_row,
                        selected_search_package_id, install_user_btn_disabled, by_key)
        s2 == CheckTable(search_table, search_cursor_row, last_search_cursor_row,
                         selected_search_package_id, install_system_btn_disabled, by_key)
        u == CheckTable(updates_table, updates_cursor_row, last_updates_cursor_row,
                        selected_update_package_id, upgrade_btn_disabled, by_key)
    IN /\ last_installed_cursor_row' = i.last
       /\ selected_package_id' = i.selected
       /\ uninstall_btn_disabled' = i.disabled
       /\ last_search_cursor_row' = s.last
       /\ selected_search_package_id' = s.selected
       /\ install_user_btn_disabled' = s.disabled
       /\ install_system_btn_disabled' = s2.disabled
       /\ last_updates_cursor_row' = u.last
       /\ selected_update_package_id' = u.selected
       /\ upgrade_btn_disabled' = u.disabled
       /\ event' = [handler |-> "check_table_selections"]
       /\ UNCHANGED <<parserVars, facadeVars, installed_packages_data, installed_table,
                      installed_cursor_row, installed_search_input, updates_data,
                      updates_table, updates_cursor_row, upgrade_all_btn_disabled,
                      updates_search_input, search_table, search_cursor_row, search_input,
                      workers, latest_fetch>>

\* the user moves the cursor of a table to one of its rows
MoveCursor(table_id, row) ==
  /\ event' = NoEvent
  /\ IF table_id = "installed-table"
     THEN /\ row < Len(installed_table)
          /\ installed_cursor_row' = row
          /\ UNCHANGED <<parserVars, facadeVars, installed_packages_data, installed_table,
                         last_installed_cursor_row, selected_package_id,
                         uninstall_btn_disabled, installed_search_input, updates_data,
                         updates_table, updates_cursor_row, last_updates_cursor_row,
                         selected_update_package_id, upgrade_btn_disabled,
                         upgrade_all_btn_disabled, updates_search_input, search_table,
                         search_cursor_row, last_search_cursor_row,
                         selected_search_package_id, install_user_btn_disabled,
                         install_system_btn_disabled, search_input, workers, latest_fetch>>
     ELSE IF table_id = "updates-table"
     THEN /\ row < Len(updates_table)
          /\ updates_cursor_row' = row
          /\ UNCHANGED <<parserVars, facadeVars, installed_packages_data, installed_table,
                         installed_cursor_row, last_installed_cursor_row,
                         selected_package_id, uninstall_btn_disabled,
                         installed_search_input, updates_data, updates_table,
                         last_updates_cursor_row, selected_update_package_id,
                         upgrade_btn_disabled, upgrade_all_btn_disabled,
                         updates_search_input, search_table, search_cursor_row,
                         last_search_cursor_row, selected_search_package_id,
                         install_user_btn_disabled, install_system_btn_disabled,
                         search_input, workers, latest_fetch>>
     ELSE /\ row < Len(search_table)
          /\ search_cursor_row' = row
          /\ UNCHANGED <<parserVars, facadeVars, installed_packages_data, installed_table,
                         installed_cursor_row, last_installed_cursor_row,
                         selected_package_id, uninstall_btn_disabled,
                         installed_search_input, updates_data, updates_table,
                         updates_cursor_row, last_updates_cursor_row,
                         selected_update_package_id, upgrade_btn_disabled,
                         upgrade_all_btn_disabled, updates_search_input, search_table,
                         last_search_cursor_row, selected_search_package_id,
                         install_user_btn_disabled, install_system_btn_disabled,
                         search_input, workers, latest_fetch>>

\* on_data_table_row_selected: the row under the cursor is selected with
\* Enter or a click; table.get_row(event.cursor_row) returns the row or raises
on_data_table_row_selected(table_id) ==
  \E by_key \in BOOLEAN :
    /\ event' = NoEvent
    /\ IF table_id = "installed-table"
       THEN /\ installed_cursor_row < Len(installed_table)
            /\ IF by_key
               THEN /\ selected_package_id' = CursorId(installed_table, installed_cursor_row)
                    /\ uninstall_btn_disabled' = FALSE
               ELSE /\ uninstall_btn_disabled' = TRUE
                    /\ UNCHANGED selected_package_id
            /\ UNCHANGED <<parserVars, facadeVars, installed_packages_data,
                           installed_table, installed_cursor_row,
                           last_installed_cursor_row, installed_search_input, updates_data,
                           updates_table, updates_cursor_row, last_updates_cursor_row,
                           selected_update_package_id, upgrade_btn_disabled,
                           upgrade_all_btn_disabled, updates_search_input, search_table,
                           search_cursor_row, last_search_cursor_row,
                           selected_search_package_id, install_user_btn_disabled,
                           install_system_btn_disabled, search_input, workers,
                           latest_fetch>>
       ELSE IF table_id = "updates-table"
       THEN /\ updates_cursor_row < Len(updates_table)
            /\ IF by_key
               THEN /\ selected_update_package_id' = CursorId(updates_table, updates_cursor_row)
                    /\ upgrade_btn_disabled' = FALSE
               ELSE /\ upgrade_btn_disabled' = TRUE
                    /\ UNCHANGED selected_update_package_id
            /\ UNCHANGED <<parserVars, facadeVars, installed_packages_data,
                           installed_table, installed_cursor_row,
                           last_installed_cursor_row, selected_package_id,
                           uninstall_btn_disabled, installed_search_input, updates_data,
                           updates_table, updates_cursor_row, last_updates_cursor_row,
                           upgrade_all_btn_disabled, updates_search_input, search_table,
                           search_cursor_row, last_search_cursor_row,
                           selected_search_package_id, install_user_btn_disabled,
                           install_system_btn_disabled, search_input, workers,
                           latest_fetch>>
       ELSE /\ search_cursor_row < Len(search_table)
            /\ UNCHANGED <<parserVars, facadeVars, installed_packages_data,
                           installed_table, installed_cursor_row,
                           last_installed_cursor_row, selected_package_id,
                           uninstall_btn_disabled, installed_search_input, updates_data,
                           updates_table, updates_cursor_row, last_updates_cursor_row,
                           selected_update_package_id, upgrade_btn_disabled,
                           upgrade_all_btn_disabled, updates_search_input, search_table,
                           search_cursor_row, last_search_cursor_row,
                           selected_search_package_id, install_user_btn_disabled,
                           install_system_btn_disabled, search_input, workers,
                           latest_fetch>>

(***************************************************************************)
(* Starting workers.  fetch_installed_packages and fetch_updates start     *)
(* their worker in slot w; the worker of the fetch of the installed        *)
(* packages that was started last is marked latest.                        *)
(***************************************************************************)
fetch_installed_packages(w) ==
  /\ workers' =
       [u \in Workers |->
          IF u = w THEN [kind |-> "fetch_installed", latest |-> TRUE]
          ELSE IF workers[u].kind = "fetch_installed" THEN [workers[u] EXCEPT !.latest = FALSE]
          ELSE workers[u]]
  /\ latest_fetch' = [state |-> "pending"]

fetch_updates(w) ==
  /\ workers' = [workers EXCEPT ![w] = [kind |-> "fetch_updates"]]
  /\ UNCHANGED latest_fetch

\* mutant: the query is not tested
perform_search_NoGuard(ev) ==
  LET query == Strip(search_input)
  IN IF FALSE
     THEN /\ event' = ev
          /\ UNCHANGED <<parserVars, facadeVars, installed_packages_data, installed_table,
                         installed_cursor_row, last_installed_cursor_row,
                         selected_package_id, uninstall_btn_disabled,
                         installed_search_input, updates_data, updates_table,
                         updates_cursor_row, last_updates_cursor_row,
                         selected_update_package_id, upgrade_btn_disabled,
                         upgrade_all_btn_disabled, updates_search_input, search_table,
                         search_cursor_row, last_search_cursor_row,
                         selected_search_package_id, install_user_btn_disabled,
                         install_system_btn_disabled, search_input, workers, latest_fetch>>
     ELSE LET w == FreeSlot
         IN /\ SomeFree
            /\ search_table' = <<>>
            /\ search_cursor_row' = 0
            /\ workers' = [workers EXCEPT ![w] =
                 [kind |-> "search", query |-> query]]
            /\ event' = Begun(ev)
            /\ UNCHANGED <<parserVars, facadeVars, installed_packages_data,
                           installed_table, installed_cursor_row,
                           last_installed_cursor_row, selected_package_id,
                           uninstall_btn_disabled, installed_search_input, updates_data,
                           updates_table, updates_cursor_row, last_updates_cursor_row,
                           selected_update_package_id, upgrade_btn_disabled,
                           upgrade_all_btn_disabled, updates_search_input,
                           last_search_cursor_row, selected_search_package_id,
                           install_user_btn_disabled, install_system_btn_disabled,
                           search_input, latest_fetch>>

perform_search(ev) ==
  LET query == Strip(search_input)
  IN IF query = <<>>
     THEN /\ event' = ev
          /\ UNCHANGED <<parserVars, facadeVars, installed_packages_data, installed_table,
                         installed_cursor_row, last_installed_cursor_row,
                         selected_package_id, uninstall_btn_disabled,
                         installed_search_input, updates_data, updates_table,
                         updates_cursor_row, last_updates_cursor_row,
                         selected_update_package_id, upgrade_btn_disabled,
                         upgrade_all_btn_disabled, updates_search_input, search_table,
                         search_cursor_row, last_search_cursor_row,
                         selected_search_package_id, install_user_btn_disabled,
                         install_system_btn_disabled, search_input, workers, latest_fetch>>
     ELSE LET w == FreeSlot
         IN /\ SomeFree
            /\ search_table' = <<>>
            /\ search_cursor_row' = 0
            /\ workers' = [workers EXCEPT ![w] =
                 [kind |-> "search", query |-> query]]
            /\ event' = Begun(ev)
            /\ UNCHANGED <<parserVars, facadeVars, installed_packages_data,
                           installed_table, installed_cursor_row,
                           last_installed_cursor_row, selected_package_id,
                           uninstall_btn_disabled, installed_search_input, updates_data,
                           updates_table, updates_cursor_row, last_updates_cursor_row,
                           selected_update_package_id, upgrade_btn_disabled,
                           upgrade_all_btn_disabled, updates_search_input,
                           last_search_cursor_row, selected_search_package_id,
                           install_user_btn_disabled, install_system_btn_disabled,
                           search_input, latest_fetch>>

perform_uninstall(ev) ==
  IF ~Truthy(selected_package_id)
  THEN /\ event' = ev
       /\ UNCHANGED <<parserVars, facadeVars, installed_packages_data, installed_table,
                      installed_cursor_row, last_installed_cursor_row, selected_package_id,
                      uninstall_btn_disabled, installed_search_input, updates_data,
                      updates_table, updates_cursor_row, last_updates_cursor_row,
                      selected_update_package_id, upgrade_btn_disabled,
                      upgrade_all_btn_disabled, updates_search_input, search_table,
                      search_cursor_row, last_search_cursor_row,
                      selected_search_package_id, install_user_btn_disabled,
                      install_system_btn_disabled, search_input, workers, latest_fetch>>
  ELSE LET w == FreeSlot
      IN /\ SomeFree
         /\ workers' = [workers EXCEPT ![w] =
              [kind |-> "uninstall", package_id |-> selected_package_id]]
         /\ event' = Begun(ev)
         /\ UNCHANGED <<parserVars, facadeVars, installed_packages_data, installed_table,
                        installed_cursor_row, last_installed_cursor_row,
                        selected_package_id, uninstall_btn_disabled,
                        installed_search_input, updates_data, updates_table,
                        updates_cursor_row, last_updates_cursor_row,
                        selected_update_package_id, upgrade_btn_disabled,
                        upgrade_all_btn_disabled, updates_search_input, search_table,
                        search_cursor_row, last_search_cursor_row,
                        selected_search_package_id, install_user_btn_disabled,
                        install_system_btn_disabled, search_input, latest_fetch>>

perform_install(ev, user_context) ==
  IF ~Truthy(selected_search_package_id)
  THEN /\ event' = ev
       /\ UNCHANGED <<parserVars, facadeVars, installed_packages_data, installed_table,
                      installed_cursor_row, last_installed_cursor_row, selected_package_id,
                      uninstall_btn_disabled, installed_search_input, updates_data,
                      updates_table, updates_cursor_row, last_updates_cursor_row,
                      selected_update_package_id, upgrade_btn_disabled,
                      upgrade_all_btn_disabled, updates_search_input, search_table,
                      search_cursor_row, last_search_cursor_row,
                      selected_search_package_id, install_user_btn_disabled,
                      install_system_btn_disabled, search_input, workers, latest_fetch>>
  ELSE LET w == FreeSlot
      IN /\ SomeFree
         /\ workers' = [workers EXCEPT ![w] =
              [kind |-> "install", package_id |-> selected_search_package_id,
               user_context |-> user_context]]
         /\ event' = Begun(ev)
         /\ UNCHANGED <<parserVars, facadeVars, installed_packages_data, installed_table,
                        installed_cursor_row, last_installed_cursor_row,
                        selected_package_id, uninstall_btn_disabled,
                        installed_search_input, updates_data, updates_table,
                        updates_cursor_row, last_updates_cursor_row,
                        selected_update_package_id, upgrade_btn_disabled,
                        upgrade_all_btn_disabled, updates_search_input, search_table,
                        search_cursor_row, last_search_cursor_row,
                        selected_search_package_id, install_user_btn_disabled,
                        install_system_btn_disabled, search_input, latest_fetch>>

perform_upgrade(ev) ==
  LET package_id == IF Truthy(selected_update_package_id)
                    THEN selected_update_package_id ELSE selected_package_id
  IN IF ~Truthy(package_id)
     THEN /\ event' = ev
          /\ UNCHANGED <<parserVars, facadeVars, installed_packages_data, installed_table,
                         installed_cursor_row, last_installed_cursor_row,
                         selected_package_id, uninstall_btn_disabled,
                         installed_search_input, updates_data, updates_table,
                         updates_cursor_row, last_updates_cursor_row,
                         selected_update_package_id, upgrade_btn_disabled,
                         upgrade_all_btn_disabled, updates_search_input, search_table,
                         search_cursor_row, last_search_cursor_row,
                         selected_search_package_id, install_user_btn_disabled,
                         install_system_btn_disabled, search_input, workers, latest_fetch>>
     ELSE LET w == FreeSlot
         IN /\ SomeFree
            /\ workers' = [workers EXCEPT ![w] =
                 [kind |-> "upgrade", package_id |-> package_id]]
            /\ event' = Begun(ev)
            /\ UNCHANGED <<parserVars, facadeVars, installed_packages_data,
                           installed_table, installed_cursor_row,
                           last_installed_cursor_row, selected_package_id,
                           uninstall_btn_disabled, installed_search_input, updates_data,
                           updates_table, updates_cursor_row, last_updates_cursor_row,
                           selected_update_package_id, upgrade_btn_disabled,
                           upgrade_all_btn_disabled, updates_search_input, search_table,
                           search_cursor_row, last_search_cursor_row,
                           selected_search_package_id, install_user_btn_disabled,
                           install_system_btn_disabled, search_input, latest_fetch>>

perform_upgrade_all(ev) ==
  IF updates_data = <<>>
  THEN /\ event' = ev
       /\ UNCHANGED <<parserVars, facadeVars, installed_packages_data, installed_table,
                      installed_cursor_row, last_installed_cursor_row, selected_package_id,
                      uninstall_btn_disabled, installed_search_input, updates_data,
                      updates_table, updates_cursor_row, last_updates_cursor_row,
                      selected_update_package_id, upgrade_btn_disabled,
                      upgrade_all_btn_disabled, updates_search_input, search_table,
                      search_cursor_row, last_search_cursor_row,
                      selected_search_package_id, install_user_btn_disabled,
                      install_system_btn_disabled, search_input, workers, latest_fetch>>
  ELSE LET w == FreeSlot
      IN /\ SomeFree
         /\ workers' = [workers EXCEPT ![w] =
              [kind |-> "upgrade_all", state |-> "running",
               package_ids |-> [i \in 1..Len(updates_data) |-> updates_data[i].id],
               upgraded |-> <<>>, success_count |-> 0, fail_count |-> 0,
               errors |-> <<>>, cancelled |-> FALSE]]
         /\ event' = Begun(ev)
         /\ UNCHANGED <<parserVars, facadeVars, installed_packages_data, installed_table,
                        installed_cursor_row, last_installed_cursor_row,
                        selected_package_id, uninstall_btn_disabled,
                        installed_search_input, updates_data, updates_table,
                        updates_cursor_row, last_updates_cursor_row,
                        selected_update_package_id, upgrade_btn_disabled,
                        upgrade_all_btn_disabled, updates_search_input, search_table,
                        search_cursor_row, last_search_cursor_row,
                        selected_search_package_id, install_user_btn_disabled,
                        install_system_btn_disabled, search_input, latest_fetch>>

action_refresh(ev, pane) ==
  IF pane = "installed-tab"
  THEN LET w == FreeSlot
      IN /\ SomeFree
         /\ fetch_installed_packages(w)
         /\ event' = Begun(ev)
         /\ UNCHANGED <<parserVars, facadeVars, installed_packages_data, installed_table,
                        installed_cursor_row, last_installed_cursor_row,
                        selected_package_id, uninstall_btn_disabled,
                        installed_search_input, updates_data, updates_table,
                        updates_cursor_row, last_updates_cursor_row,
                        selected_update_package_id, upgrade_btn_disabled,
                        upgrade_all_btn_disabled, updates_search_input, search_table,
                        search_cursor_row, last_search_cursor_row,
                        selected_search_package_id, install_user_btn_disabled,
                        install_system_btn_disabled, search_input>>
  ELSE IF pane = "updates-tab"
  THEN LET w == FreeSlot
      IN /\ SomeFree
         /\ fetch_updates(w)
         /\ event' = Begun(ev)
         /\ UNCHANGED <<parserVars, facadeVars, installed_packages_data, installed_table,
                        installed_cursor_row, last_installed_cursor_row,
                        selected_package_id, uninstall_btn_disabled,
                        installed_search_input, updates_data, updates_table,
                        updates_cursor_row, last_updates_cursor_row,
                        selected_update_package_id, upgrade_btn_disabled,
                        upgrade_all_btn_disabled, updates_search_input, search_table,
                        search_cursor_row, last_search_cursor_row,
                        selected_search_package_id, install_user_btn_disabled,
                        install_system_btn_disabled, search_input>>
  ELSE /\ event' = ev
       /\ UNCHANGED <<parserVars, facadeVars, installed_packages_data, installed_table,
                      installed_cursor_row, last_installed_cursor_row, selected_package_id,
                      uninstall_btn_disabled, installed_search_input, updates_data,
                      updates_table, updates_cursor_row, last_updates_cursor_row,
                      selected_update_package_id, upgrade_btn_disabled,
                      upgrade_all_btn_disabled, updates_search_input, search_table,
                      search_cursor_row, last_search_cursor_row,
                      selected_search_package_id, install_user_btn_disabled,
                      install_system_btn_disabled, search_input, workers, latest_fetch>>

\* Button.disabled, as the setup_*_tab methods and the handlers set it
Disabled(id) ==
  IF id = "uninstall-btn" THEN uninstall_btn_disabled
  ELSE IF id = "install-user-btn" THEN install_user_btn_disabled
  ELSE IF id = "install-system-btn" THEN install_system_btn_disabled
  ELSE IF id = "upgrade-btn" THEN upgrade_btn_disabled
  ELSE IF id = "upgrade-all-btn" THEN upgrade_all_btn_disabled
  ELSE FALSE

\* a button that is not disabled is pressed
on_button_pressed(id) ==
  /\ ~Disabled(id)
  /\ LET ev == Ev("on_button_pressed", id)
     IN IF id = "refresh-installed"
        THEN LET w == FreeSlot
            IN /\ SomeFree
               /\ fetch_installed_packages(w)
               /\ event' = Begun(ev)
               /\ UNCHANGED <<parserVars, facadeVars, installed_packages_data,
                              installed_table, installed_cursor_row,
                              last_installed_cursor_row, selected_package_id,
                              uninstall_btn_disabled, installed_search_input, updates_data,
                              updates_table, updates_cursor_row, last_updates_cursor_row,
                              selected_update_package_id, upgrade_btn_disabled,
                              upgrade_all_btn_disabled, updates_search_input, search_table,
                              search_cursor_row, last_search_cursor_row,
                              selected_search_package_id, install_user_btn_disabled,
                              install_system_btn_disabled, search_input>>
        ELSE IF id = "search-btn" THEN perform_search(ev)
        ELSE IF id = "uninstall-btn" THEN perform_uninstall(ev)
        ELSE IF id = "upgrade-btn" THEN perform_upgrade(ev)
        ELSE IF id = "check-updates" THEN action_refresh(ev, "updates-tab")
        ELSE IF id = "install-user-btn" THEN perform_install(ev, TRUE)
        ELSE IF id = "install-system-btn" THEN perform_install(ev, FALSE)
        ELSE /\ event' = ev
             /\ UNCHANGED <<parserVars, facadeVars, installed_packages_data,
                            installed_table, installed_cursor_row,
                            last_installed_cursor_row, selected_package_id,
                            uninstall_btn_disabled, installed_search_input, updates_data,
                            updates_table, updates_cursor_row, last_updates_cursor_row,
                            selected_update_package_id, upgrade_btn_disabled,
                            upgrade_all_btn_disabled, updates_search_input, search_table,
                            search_cursor_row, last_search_cursor_row,
                            selected_search_package_id, install_user_btn_disabled,
                            install_system_btn_disabled, search_input, workers,
                            latest_fetch>>

\* a key binding runs its action; pane is the active tab
on_key(action, pane) ==
  LET ev == Ev(action, pane)
  IN IF action = "action_refresh" THEN action_refresh(ev, pane)
     ELSE IF action = "action_uninstall" /\ ~uninstall_btn_disabled THEN perform_uninstall(ev)
     ELSE IF action = "action_upgrade" /\ ~upgrade_btn_disabled THEN perform_upgrade(ev)
     ELSE IF action = "action_upgrade_all" /\ ~upgrade_all_btn_disabled
     THEN perform_upgrade_all(ev)
     ELSE IF action = "action_install_user" /\ ~install_user_btn_disabled
     THEN perform_install(ev, TRUE)
     ELSE IF action = "action_install_system" /\ ~install_system_btn_disabled
     THEN perform_install(ev, FALSE)
     ELSE /\ event' = ev
          /\ UNCHANGED <<parserVars, facadeVars, installed_packages_data, installed_table,
                         installed_cursor_row, last_installed_cursor_row,
                         selected_package_id, uninstall_btn_disabled,
                         installed_search_input, updates_data, updates_table,
                         updates_cursor_row, last_updates_cursor_row,
                         selected_update_package_id, upgrade_btn_disabled,
                         upgrade_all_btn_disabled, updates_search_input, search_table,
                         search_cursor_row, last_search_cursor_row,
                         selected_search_package_id, install_user_btn_disabled,
                         install_system_btn_disabled, search_input, workers, latest_fetch>>

filter_installed_table ==
  /\ installed_table' = FilterInstalled(installed_search_input', installed_packages_data)
  /\ installed_cursor_row' = 0

filter_updates_table ==
  /\ updates_table' = FilterUpdates(updates_search_input', updates_data)
  /\ updates_cursor_row' = 0

\* the user edits an input: Input.value changes and on_input_changed runs
on_input_changed(id, value) ==
  /\ event' = NoEvent
  /\ IF id = "installed-search-input"
     THEN /\ value \in FilterQueries
          /\ installed_search_input' = value
          /\ filter_installed_table
          /\ UNCHANGED <<parserVars, facadeVars, installed_packages_data,
                         last_installed_cursor_row, selected_package_id,
                         uninstall_btn_disabled, updates_data, updates_table,
                         updates_cursor_row, last_updates_cursor_row,
                         selected_update_package_id, upgrade_btn_disabled,
                         upgrade_all_btn_disabled, updates_search_input, search_table,
                         search_cursor_row, last_search_cursor_row,
                         selected_search_package_id, install_user_btn_disabled,
                         install_system_btn_disabled, search_input, workers, latest_fetch>>
     ELSE IF id = "updates-search-input"
     THEN /\ value \in FilterQueries
          /\ updates_search_input' = value
          /\ filter_updates_table
          /\ UNCHANGED <<parserVars, facadeVars, installed_packages_data, installed_table,
                         installed_cursor_row, last_installed_cursor_row,
                         selected_package_id, uninstall_btn_disabled,
                         installed_search_input, updates_data, last_updates_cursor_row,
                         selected_update_package_id, upgrade_btn_disabled,
                         upgrade_all_btn_disabled, search_table, search_cursor_row,
                         last_search_cursor_row, selected_search_package_id,
                         install_user_btn_disabled, install_system_btn_disabled,
                         search_input, workers, latest_fetch>>
     ELSE /\ value \in SearchQueries
          /\ search_input' = value
          /\ UNCHANGED <<parserVars, facadeVars, installed_packages_data, installed_table,
                         installed_cursor_row, last_installed_cursor_row,
                         selected_package_id, uninstall_btn_disabled,
                         installed_search_input, updates_data, updates_table,
                         updates_cursor_row, last_updates_cursor_row,
                         selected_update_package_id, upgrade_btn_disabled,
                         upgrade_all_btn_disabled, updates_search_input, search_table,
                         search_cursor_row, last_search_cursor_row,
                         selected_search_package_id, install_user_btn_disabled,
                         install_system_btn_disabled, workers, latest_fetch>>

\* Enter in an input
on_input_submitted(id) ==
  LET ev == Ev("on_input_submitted", id)
  IN IF id = "search-input" THEN perform_search(ev)
     ELSE IF id = "installed-search-input"
     THEN /\ event' = NoEvent
          /\ UNCHANGED installed_search_input
          /\ filter_installed_table
          /\ UNCHANGED <<parserVars, facadeVars, installed_packages_data,
                         last_installed_cursor_row, selected_package_id,
                         uninstall_btn_disabled, updates_data, updates_table,
                         updates_cursor_row, last_updates_cursor_row,
                         selected_update_package_id, upgrade_btn_disabled,
                         upgrade_all_btn_disabled, updates_search_input, search_table,
                         search_cursor_row, last_search_cursor_row,
                         selected_search_package_id, install_user_btn_disabled,
                         install_system_btn_disabled, search_input, workers, latest_fetch>>
     ELSE /\ event' = NoEvent
          /\ UNCHANGED updates_search_input
          /\ filter_updates_table
          /\ UNCHANGED <<parserVars, facadeVars, installed_packages_data, installed_table,
                         installed_cursor_row, last_installed_cursor_row,
                         selected_package_id, uninstall_btn_disabled,
                         installed_search_input, updates_data, last_updates_cursor_row,
                         selected_update_package_id, upgrade_btn_disabled,
                         upgrade_all_btn_disabled, search_table, search_cursor_row,
                         last_search_cursor_row, selected_search_package_id,
                         install_user_btn_disabled, install_system_btn_disabled,
                         search_input, workers, latest_fetch>>

(***************************************************************************)
(* The thread functions.  do_fetch, do_search, do_uninstall, do_install    *)
(* and do_upgrade read worker.is_cancelled once and then call the client;  *)
(* they touch nothing of the application, so what they return is drawn     *)
(* when check_worker_result reads worker.result.  do_upgrade_all reads     *)
(* is_cancelled before each upgrade and is followed turn by turn.          *)
(***************************************************************************)
Cancelled == << <<"C", "a", "n", "c", "e", "l", "l", "e", "d">> >>

\* what a thread function returns when it finds its worker cancelled
CancelledResult(o) ==
  IF o \in FetchOps THEN [packages |-> <<>>, error |-> None, parsed |-> FALSE]
  ELSE [success |-> FALSE, error |-> Cancelled, parsed |-> FALSE]

\* do_fetch, do_search, do_uninstall, do_install, do_upgrade
do_call(o, is_cancelled, outcome) ==
  IF is_cancelled THEN CancelledResult(o) ELSE ClientCall(o, outcome)

\* worker.result of a finished worker that called o
ResultsOf(o) == {do_call(o, c, outcome) : c \in BOOLEAN, outcome \in OutcomesOf(o)}

ListResults == ResultsOf("list_installed")

UpdateResults == ResultsOf("check_for_updates")

SearchResults == ResultsOf("search")

UninstallResults == ResultsOf("uninstall")

InstallResults == ResultsOf("install")

UpgradeResults == ResultsOf("upgrade")

\* what self.winget_client.upgrade(package_id) returns to do_upgrade_all
UpgradeCalls == {ClientCall("upgrade", outcome) : outcome \in OutcomesOf("upgrade")}

\* mutant: the loop ends at the first upgrade that fails
do_upgrade_all_StopOnFailure(w) ==
  /\ workers[w].kind = "upgrade_all"
  /\ workers[w].state = "running"
  /\ \E is_cancelled \in BOOLEAN :
       LET me == workers[w]
           package_id == me.package_ids[Len(me.upgraded) + 1]
       IN IF is_cancelled
          THEN workers' = [workers EXCEPT ![w].state = "finished", ![w].cancelled = TRUE]
          ELSE \E r \in UpgradeCalls :
                 LET last == Len(me.upgraded) + 1 = Len(me.package_ids)
                 IN workers' = [workers EXCEPT
                      ![w].upgraded = Append(@, package_id),
                      ![w].success_count = IF r.success THEN @ + 1 ELSE @,
                      ![w].fail_count = IF r.success THEN @ ELSE @ + 1,
                      ![w].errors = IF r.success THEN @
                                    ELSE Append(@, package_id \o <<":", " ">> \o JoinLines(r.error)),
                      ![w].state = IF last \/ ~r.success THEN "finished" ELSE "running"]
  /\ event' = NoEvent
  /\ UNCHANGED <<parserVars, facadeVars, installed_packages_data, installed_table,
                 installed_cursor_row, last_installed_cursor_row, selected_package_id,
                 uninstall_btn_disabled, installed_search_input, updates_data,
                 updates_table, updates_cursor_row, last_updates_cursor_row,
                 selected_update_package_id, upgrade_btn_disabled,
                 upgrade_all_btn_disabled, updates_search_input, search_table,
                 search_cursor_row, last_search_cursor_row, selected_search_package_id,
                 install_user_btn_disabled, install_system_btn_disabled, search_input,
                 latest_fetch>>

\* one turn of the loop of do_upgrade_all
do_upgrade_all(w) ==
  /\ workers[w].kind = "upgrade_all"
  /\ workers[w].state = "running"
  /\ \E is_cancelled \in BOOLEAN :
       LET me == workers[w]
           package_id == me.package_ids[Len(me.upgraded) + 1]
       IN IF is_cancelled
          THEN workers' = [workers EXCEPT ![w].state = "finished", ![w].cancelled = TRUE]
          ELSE \E r \in UpgradeCalls :
                 LET last == Len(me.upgraded) + 1 = Len(me.package_ids)
                 IN workers' = [workers EXCEPT
                      ![w].upgraded = Append(@, package_id),
                      ![w].success_count = IF r.success THEN @ + 1 ELSE @,
                      ![w].fail_count = IF r.success THEN @ ELSE @ + 1,
                      ![w].errors = IF r.success THEN @
                                    ELSE Append(@, package_id \o <<":", " ">> \o JoinLines(r.error)),
                      ![w].state = IF last THEN "finished" ELSE "running"]
  /\ event' = NoEvent
  /\ UNCHANGED <<parserVars, facadeVars, installed_packages_data, installed_table,
                 installed_cursor_row, last_installed_cursor_row, selected_package_id,
                 uninstall_btn_disabled, installed_search_input, updates_data,
                 updates_table, updates_cursor_row, last_updates_cursor_row,
                 selected_update_package_id, upgrade_btn_disabled,
                 upgrade_all_btn_disabled, updates_search_input, search_table,
                 search_cursor_row, last_search_cursor_row, selected_search_package_id,
                 install_user_btn_disabled, install_system_btn_disabled, search_input,
                 latest_fetch>>

(***************************************************************************)
(* check_worker_result finds the worker finished and runs on_complete.     *)
(***************************************************************************)
Completed(kind, res) == [handler |-> "on_complete", kind |-> kind, result |-> res]

\* mutant: the fetched records are added to the stored ones
on_complete_fetch_installed_Merge(w) ==
  /\ workers[w].kind = "fetch_installed"
  /\ \E res \in ListResults :
    /\ LET pkgs == res.packages
       IN /\ installed_packages_data' = installed_packages_data \o pkgs
          /\ installed_table' = IF Strip(installed_search_input) # <<>>
                                THEN FilterInstalled(installed_search_input, pkgs)
                                ELSE InstalledRows(pkgs)
          /\ installed_cursor_row' = 0
          /\ latest_fetch' = IF workers[w].latest
                             THEN [state |-> "done", packages |-> pkgs]
                             ELSE latest_fetch
    /\ workers' = [workers EXCEPT ![w] = NoWorker]
    /\ event' = Completed("fetch_installed", res)
    /\ UNCHANGED <<parserVars, facadeVars, last_installed_cursor_row, selected_package_id,
                   uninstall_btn_disabled, installed_search_input, updates_data,
                   updates_table, updates_cursor_row, last_updates_cursor_row,
                   selected_update_package_id, upgrade_btn_disabled,
                   upgrade_all_btn_disabled, updates_search_input, search_table,
                   search_cursor_row, last_search_cursor_row, selected_search_package_id,
                   install_user_btn_disabled, install_system_btn_disabled, search_input>>

on_complete_fetch_installed(w) ==
  /\ workers[w].kind = "fetch_installed"
  /\ \E res \in ListResults :
    /\ LET pkgs == res.packages
       IN /\ installed_packages_data' = pkgs
          /\ installed_table' = IF Strip(installed_search_input) # <<>>
                                THEN FilterInstalled(installed_search_input, pkgs)
                                ELSE InstalledRows(pkgs)
          /\ installed_cursor_row' = 0
          /\ latest_fetch' = IF workers[w].latest
                             THEN [state |-> "done", packages |-> pkgs]
                             ELSE latest_fetch
    /\ workers' = [workers EXCEPT ![w] = NoWorker]
    /\ event' = Completed("fetch_installed", res)
    /\ UNCHANGED <<parserVars, facadeVars, last_installed_cursor_row, selected_package_id,
                   uninstall_btn_disabled, installed_search_input, updates_data,
                   updates_table, updates_cursor_row, last_updates_cursor_row,
                   selected_update_package_id, upgrade_btn_disabled,
                   upgrade_all_btn_disabled, updates_search_input, search_table,
                   search_cursor_row, last_search_cursor_row, selected_search_package_id,
                   install_user_btn_disabled, install_system_btn_disabled, search_input>>

on_complete_fetch_updates(w) ==
  /\ workers[w].kind = "fetch_updates"
  /\ \E res \in UpdateResults :
    /\ LET pkgs == res.packages
       IN /\ updates_data' = pkgs
          /\ updates_table' = IF Strip(updates_search_input) # <<>>
                              THEN FilterUpdates(updates_search_input, pkgs)
                              ELSE UpdatesRows(pkgs)
          /\ updates_cursor_row' = 0
          /\ upgrade_all_btn_disabled' = (Len(pkgs) = 0)
    /\ workers' = [workers EXCEPT ![w] = NoWorker]
    /\ event' = Completed("fetch_updates", res)
    /\ UNCHANGED <<parserVars, facadeVars, installed_packages_data, installed_table,
                   installed_cursor_row, last_installed_cursor_row, selected_package_id,
                   uninstall_btn_disabled, installed_search_input, last_updates_cursor_row,
                   selected_update_package_id, upgrade_btn_disabled, updates_search_input,
                   search_table, search_cursor_row, last_search_cursor_row,
                   selected_search_package_id, install_user_btn_disabled,
                   install_system_btn_disabled, search_input, latest_fetch>>

on_complete_search(w) ==
  /\ workers[w].kind = "search"
  /\ \E res \in SearchResults :
    /\ IF res.error # None
       THEN /\ search_table' = Append(search_table,
                 <<ErrorPrefix \o JoinLines(res.error), <<>>, <<>>, <<>> >>)
            /\ UNCHANGED search_cursor_row
       ELSE /\ search_table' = SearchRows(res.packages)
            /\ search_cursor_row' = 0
    /\ workers' = [workers EXCEPT ![w] = NoWorker]
    /\ event' = Completed("search", res)
    /\ UNCHANGED <<parserVars, facadeVars, installed_packages_data, installed_table,
                   installed_cursor_row, last_installed_cursor_row, selected_package_id,
                   uninstall_btn_disabled, installed_search_input, updates_data,
                   updates_table, updates_cursor_row, last_updates_cursor_row,
                   selected_update_package_id, upgrade_btn_disabled,
                   upgrade_all_btn_disabled, updates_search_input, last_search_cursor_row,
                   selected_search_package_id, install_user_btn_disabled,
                   install_system_btn_disabled, search_input, latest_fetch>>

on_complete_uninstall(w) ==
  /\ workers[w].kind = "uninstall"
  /\ \E res \in UninstallResults :
    /\ IF res.success
       THEN fetch_installed_packages(w)
       ELSE /\ workers' = [workers EXCEPT ![w] = NoWorker]
            /\ UNCHANGED latest_fetch
    /\ event' = Completed("uninstall", res)
    /\ UNCHANGED <<parserVars, facadeVars, installed_packages_data, installed_table,
                   installed_cursor_row, last_installed_cursor_row, selected_package_id,
                   uninstall_btn_disabled, installed_search_input, updates_data,
                   updates_table, updates_cursor_row, last_updates_cursor_row,
                   selected_update_package_id, upgrade_btn_disabled,
                   upgrade_all_btn_disabled, updates_search_input, search_table,
                   search_cursor_row, last_search_cursor_row, selected_search_package_id,
                   install_user_btn_disabled, install_system_btn_disabled, search_input>>

on_complete_install(w) ==
  /\ workers[w].kind = "install"
  /\ \E res \in InstallResults :
    /\ IF res.success
       THEN /\ install_user_btn_disabled' = TRUE
            /\ install_system_btn_disabled' = TRUE
       ELSE UNCHANGED <<install_user_btn_disabled, install_system_btn_disabled>>
    /\ workers' = [workers EXCEPT ![w] = NoWorker]
    /\ event' = Completed("install", res)
    /\ UNCHANGED <<parserVars, facadeVars, installed_packages_data, installed_table,
                   installed_cursor_row, last_installed_cursor_row, selected_package_id,
                   uninstall_btn_disabled, installed_search_input, updates_data,
                   updates_table, updates_cursor_row, last_updates_cursor_row,
                   selected_update_package_id, upgrade_btn_disabled,
                   upgrade_all_btn_disabled, updates_search_input, search_table,
                   search_cursor_row, last_search_cursor_row, selected_search_package_id,
                   search_input, latest_fetch>>

on_complete_upgrade(w) ==
  /\ workers[w].kind = "upgrade"
  /\ \E res \in UpgradeResults :
    /\ IF res.success
       THEN IF Truthy(selected_update_package_id)
            THEN fetch_updates(w)
            ELSE fetch_installed_packages(w)
       ELSE /\ workers' = [workers EXCEPT ![w] = NoWorker]
            /\ UNCHANGED latest_fetch
    /\ event' = Completed("upgrade", res)
    /\ UNCHANGED <<parserVars, facadeVars, installed_packages_data, installed_table,
                   installed_cursor_row, last_installed_cursor_row, selected_package_id,
                   uninstall_btn_disabled, installed_search_input, updates_data,
                   updates_table, updates_cursor_row, last_updates_cursor_row,
                   selected_update_package_id, upgrade_btn_disabled,
                   upgrade_all_btn_disabled, updates_search_input, search_table,
                   search_cursor_row, last_search_cursor_row, selected_search_package_id,
                   install_user_btn_disabled, install_system_btn_disabled, search_input>>

on_complete_upgrade_all(w) ==
  /\ workers[w].kind = "upgrade_all"
  /\ workers[w].state = "finished"
  /\ fetch_updates(w)
  /\ event' = Completed("upgrade_all", workers[w])
  /\ UNCHANGED <<parserVars, facadeVars, installed_packages_data, installed_table,
                 installed_cursor_row, last_installed_cursor_row, selected_package_id,
                 uninstall_btn_disabled, installed_search_input, updates_data,
                 updates_table, updates_cursor_row, last_updates_cursor_row,
                 selected_update_package_id, upgrade_btn_disabled,
                 upgrade_all_btn_disabled, updates_search_input, search_table,
                 search_cursor_row, last_search_cursor_row, selected_search_package_id,
                 install_user_btn_disabled, install_system_btn_disabled, search_input>>

(***************************************************************************)
(* The application is followed one tab at a time.  on_mount has built the  *)
(* tabs; setup_installed_tab and setup_updates_tab have each started the   *)
(* first fetch of their tab.                                               *)
(***************************************************************************)
FirstSlot == CHOOSE w \in Workers : TRUE

ClientIdle ==
  /\ output = <<>>
  /\ called = "none"
  /\ packages = <<>>
  /\ FacadeIdle

InitInstalled ==
  /\ ClientIdle
  /\ AppConstructed
  /\ workers = [u \in Workers |->
                  IF u = FirstSlot THEN [kind |-> "fetch_installed", latest |-> TRUE]
                  ELSE NoWorker]
  /\ latest_fetch = [state |-> "pending"]

NextInstalled ==
  \/ \E w \in Workers : on_complete_fetch_installed(w)
  \/ \E w \in Workers : on_complete_uninstall(w)
  \/ check_table_selections
  \/ \E row \in 0..1 : MoveCursor("installed-table", row)
  \/ on_data_table_row_selected("installed-table")
  \/ \E id \in {"refresh-installed", "uninstall-btn"} : on_button_pressed(id)
  \/ \E action \in {"action_refresh", "action_uninstall"} : on_key(action, "installed-tab")
  \/ \E value \in FilterQueries : on_input_changed("installed-search-input", value)
  \/ on_input_submitted("installed-search-input")

SpecInstalled == InitInstalled /\ [][NextInstalled]_vars

InitUpdates ==
  /\ ClientIdle
  /\ AppConstructed
  /\ workers = [u \in Workers |->
                  IF u = FirstSlot THEN [kind |-> "fetch_updates"]
                  ELSE NoWorker]
  /\ latest_fetch = [state |-> "none"]

NextUpdates ==
  \/ \E w \in Workers : do_upgrade_all(w)
  \/ \E w \in Workers : on_complete_fetch_updates(w)
  \/ \E w \in Workers : on_complete_upgrade(w)
  \/ \E w \in Workers : on_complete_upgrade_all(w)
  \/ check_table_selections
  \/ \E row \in 0..1 : MoveCursor("updates-table", row)
  \/ on_data_table_row_selected("updates-table")
  \/ \E id \in {"check-updates", "upgrade-btn", "upgrade-all-btn"} : on_button_pressed(id)
  \/ \E action \in {"action_refresh", "action_upgrade", "action_upgrade_all"} :
       on_key(action, "updates-tab")
  \/ \E value \in FilterQueries : on_input_changed("updates-search-input", value)
  \/ on_input_submitted("updates-search-input")

SpecUpdates == InitUpdates /\ [][NextUpdates]_vars

InitBrowse ==
  /\ ClientIdle
  /\ AppConstructed
  /\ workers = [w \in Workers |-> NoWorker]
  /\ latest_fetch = [state |-> "none"]

NextBrowse ==
  \/ \E w \in Workers : on_complete_search(w)
  \/ \E w \in Workers : on_complete_install(w)
  \/ check_table_selections
  \/ \E row \in 0..1 : MoveCursor("search-table", row)
  \/ on_data_table_row_selected("search-table")
  \/ \E id \in {"search-btn", "install-user-btn", "install-system-btn"} : on_button_pressed(id)
  \/ \E action \in {"action_refresh", "action_install_user", "action_install_system"} :
       on_key(action, "browse-tab")
  \/ \E value \in SearchQueries : on_input_changed("search-input", value)
  \/ on_input_submitted("search-input")

SpecBrowse == InitBrowse /\ [][NextBrowse]_vars

(***************************************************************************)
(* Vocabulary of the properties, stated on the text itself: the first      *)
(* separator, the trimmed lines below it, and the fields of a line, i.e.   *)
(* its pieces between runs of two or more spaces.                          *)
(***************************************************************************)
Dashes == <<"-", "-", "-">>

HasSeparator ==
  \E i \in 1..Len(output) : StartsWith(Strip(output[i]), Dashes)

FirstSep ==
  IF HasSeparator
  THEN CHOOSE i \in 1..Len(output) :
         /\ StartsWith(Strip(output[i]), Dashes)
         /\ \A j \in 1..(i - 1) : ~StartsWith(Strip(output[j]), Dashes)
  ELSE 0

AfterSep ==
  IF HasSeparator
  THEN [k \in 1..(Len(output) - FirstSep) |-> Strip(output[FirstSep + k])]
  ELSE <<>>

BeforeSep == [k \in 1..FirstSep |-> Strip(output[k])]

RECURSIVE SpaceRun(_, _)
SpaceRun(line, p) ==
  IF p > Len(line) \/ line[p] # " " THEN 0 ELSE 1 + SpaceRun(line, p + 1)

RECURSIVE Tokenize(_, _, _, _)
Tokenize(line, p, cur, acc) ==
  IF p > Len(line) THEN (IF cur = <<>> THEN acc ELSE Append(acc, cur))
  ELSE IF SpaceRun(line, p) >= 2
       THEN Tokenize(line, p + SpaceRun(line, p), <<>>,
                     IF cur = <<>> THEN acc ELSE Append(acc, cur))
       ELSE Tokenize(line, p + 1, Append(cur, line[p]), acc)

Fields(line) == Tokenize(line, 1, <<>>, <<>>)

TooShort(line) == Len(line) < 10

SpinnerPrefixed(line) == Len(line) > 0 /\ line[1] \in {"-", "\\", "|", "/"}

Excluded(line) == TooShort(line) \/ SpinnerPrefixed(line)

\* the only whitespace of the line is the space character
SpacesOnly(line) == \A i \in 1..Len(line) : line[i] # "\t"

Matches(kind, line) == ReMatch(PatternOf(kind), line).ok

RecordOf(kind, line) == PackageOf(kind, ReMatch(PatternOf(kind), line), line)

Called == called # "none"

\* the text is a table with exactly one line below its separator
OneDataRow == HasSeparator /\ Len(AfterSep) = 1

Row == AfterSep[1]

RowFields == Fields(Row)

LabelWords ==
  { <<"C", "o", "m", "m", "a", "n", "d", ":">>, <<"T", "a", "g", ":">>, <<"T", "a", "g">> }

(***************************************************************************)
(* C1: every Package a parser emits has a non-empty name, a non-empty id   *)
(* and a non-empty version; a line for which these cannot be established   *)
(* yields no record.                                                       *)
(***************************************************************************)
C1_FieldsNonEmpty ==
  \A i \in 1..Len(packages) :
    /\ packages[i].name # <<>>
    /\ packages[i].id # <<>>
    /\ packages[i].version # <<>>

(***************************************************************************)
(* C2: in the upgradable-list context a data line with fewer than five     *)
(* fields yields no record, whatever the widths of its gaps.               *)
(***************************************************************************)
C2_FewerThanFiveDropped ==
  (called = "upgrade" /\ OneDataRow /\ packages # <<>>) => Len(RowFields) >= 5

(***************************************************************************)
(* C3: in the upgradable-list context a data line of exactly five fields   *)
(* (single spaces inside a field, no other whitespace) that does not begin *)
(* with a spinner character yields one record whose name, id, version,     *)
(* availableVersion and source are the first to fifth field in that order. *)
(***************************************************************************)
C3_FiveFields ==
  (called = "upgrade" /\ OneDataRow /\ ~SpinnerPrefixed(Row) /\ SpacesOnly(Row)) =>
    LET f == RowFields
    IN Len(f) = 5 =>
         packages = << [name |-> f[1], id |-> f[2], version |-> f[3],
                        available_version |-> f[4], source |-> f[5]] >>

\* C3 as stated: every data line of exactly five fields yields that record
C3_FiveFieldsAnyLine ==
  (called = "upgrade" /\ OneDataRow) =>
    LET f == RowFields
    IN Len(f) = 5 =>
         packages = << [name |-> f[1], id |-> f[2], version |-> f[3],
                        available_version |-> f[4], source |-> f[5]] >>

C3_Witness ==
  /\ called = "upgrade"
  /\ OneDataRow
  /\ Len(RowFields) = 5
  /\ RowFields[1] = Zip
  /\ Len(Row) > Len(Zip) + Len(GitId) + Len(V2400) + Len(V2420) + Len(winget) + 4 * MinGap
  /\ Len(packages) = 1
  /\ packages[1].name = Zip
  /\ packages[1].available_version = V2420
  /\ packages[1].source = winget

(***************************************************************************)
(* C4: a text in which no line's trimmed content starts with '---' yields  *)
(* the empty record sequence, from each of the three parsers.              *)
(***************************************************************************)
C4_NoSeparatorNoRecords ==
  (Called /\ ~HasSeparator) => packages = <<>>

C4_Witness ==
  /\ Called
  /\ ~HasSeparator
  /\ \E i \in 1..Len(output) :
       ~Excluded(Strip(output[i])) /\ Matches(called, Strip(output[i]))
  /\ packages = <<>>

(***************************************************************************)
(* C5: only lines strictly below the first separator produce records: the  *)
(* records number at most the lines below it and each is the record of     *)
(* one of those lines.                                                     *)
(***************************************************************************)
C5_OnlyLinesBelowSeparator ==
  (Called /\ packages # <<>>) =>
    LET after == AfterSep
    IN /\ Len(packages) <= Len(after)
       /\ \A n \in 1..Len(packages) :
            \E j \in 1..Len(after) :
              /\ Matches(called, after[j])
              /\ packages[n] = RecordOf(called, after[j])

C5_Witness ==
  /\ Called
  /\ HasSeparator
  /\ \E j \in 1..(FirstSep - 1) :
       ~Excluded(BeforeSep[j]) /\ Matches(called, BeforeSep[j])
  /\ Len(AfterSep) = 1
  /\ Len(packages) = 1

(***************************************************************************)
(* C6: a data line whose trimmed form is shorter than 10 characters or     *)
(* begins with - \ | / never produces a record: the records number at most *)
(* the lines below the separator that are not of this kind.                *)
(***************************************************************************)
C6_ExcludedLinesDropped ==
  (Called /\ packages # <<>>) =>
    LET after == AfterSep
    IN Len(packages) <= Cardinality({j \in 1..Len(after) : ~Excluded(after[j])})

C6_Witness ==
  /\ Called
  /\ OneDataRow
  /\ TooShort(Row)
  /\ Matches(called, Row)
  /\ packages = <<>>

(***************************************************************************)
(* C7: with a separator present, the output holds exactly one record per   *)
(* line below it that passes the filter and matches the column pattern,    *)
(* in the order of those lines.                                            *)
(***************************************************************************)
KeptLine(line) == ~Excluded(line) /\ Matches(called, line)

C7_OneRecordPerLineInOrder ==
  (Called /\ HasSeparator) =>
    LET kept == SelectSeq(AfterSep, KeptLine)
    IN /\ Len(packages) = Len(kept)
       /\ \A n \in 1..Len(kept) : packages[n] = RecordOf(called, kept[n])

C7_Witness ==
  /\ Called
  /\ HasSeparator
  /\ Len(AfterSep) = 2
  /\ Len(packages) = 2
  /\ packages[1].name = Git
  /\ packages[2].name = Zip

(***************************************************************************)
(* C8: in the installed-list context a data line with five fields (single  *)
(* spaces inside a field, no other whitespace) that does not begin with a  *)
(* spinner character yields a record whose source is the last field and    *)
(* whose availableVersion is the second-to-last field.                     *)
(***************************************************************************)
C8_FiveFieldsList ==
  (called = "list" /\ OneDataRow /\ ~SpinnerPrefixed(Row) /\ SpacesOnly(Row)) =>
    LET f == RowFields
    IN Len(f) = 5 =>
         /\ Len(packages) = 1
         /\ packages[1].source = f[5]
         /\ packages[1].available_version = f[4]

\* C8 as stated: every data line with five fields yields such a record
C8_FiveFieldsListAnyLine ==
  (called = "list" /\ OneDataRow) =>
    LET f == RowFields
    IN Len(f) = 5 =>
         /\ Len(packages) = 1
         /\ packages[1].source = f[5]
         /\ packages[1].available_version = f[4]

C8_Witness ==
  /\ called = "list"
  /\ OneDataRow
  /\ Len(RowFields) = 5
  /\ RowFields[4] = Preview
  /\ Len(packages) = 1
  /\ packages[1].source = winget
  /\ packages[1].available_version = Preview

(***************************************************************************)
(* C9: in the installed-list context a data line with exactly four fields  *)
(* (single spaces inside a field, no other whitespace) that does not begin *)
(* with a spinner character yields a record whose                          *)
(* fourth field becomes source, with availableVersion empty, when it       *)
(* contains 'winget' or 'msstore' case-insensitively or is shorter than 20 *)
(* characters; otherwise it becomes availableVersion and source is         *)
(* 'winget'.                                                               *)
(***************************************************************************)
NamesCatalog(f) ==
  \/ Contains(<<"w", "i", "n", "g", "e", "t">>, Lower(f))
  \/ Contains(<<"m", "s", "s", "t", "o", "r", "e">>, Lower(f))

C9_Expected(f) ==
  IF NamesCatalog(f[4]) \/ Len(f[4]) < 20
  THEN [name |-> f[1], id |-> f[2], version |-> f[3],
        source |-> f[4], available_version |-> <<>>]
  ELSE [name |-> f[1], id |-> f[2], version |-> f[3],
        source |-> <<"w", "i", "n", "g", "e", "t">>, available_version |-> f[4]]

C9_FourFieldsList ==
  (called = "list" /\ OneDataRow /\ ~SpinnerPrefixed(Row) /\ SpacesOnly(Row)) =>
    LET f == RowFields
    IN Len(f) = 4 => packages = <<C9_Expected(f)>>

\* C9 as stated: every data line with exactly four fields yields that record
C9_FourFieldsListAnyLine ==
  (called = "list" /\ OneDataRow) =>
    LET f == RowFields
    IN Len(f) = 4 => packages = <<C9_Expected(f)>>

C9_Witness ==
  /\ called = "list"
  /\ OneDataRow
  /\ Len(RowFields) = 4
  /\ RowFields[1] = Zip
  /\ RowFields[4] = Preview
  /\ Len(packages) = 1
  /\ packages[1].source = winget
  /\ packages[1].available_version = Preview

(***************************************************************************)
(* C10: in the search-results context, when the one optional trailing      *)
(* field of a data line is 'Command:', 'Tag:' or 'Tag', the emitted record *)
(* has an empty availableVersion and holds the label in none of its        *)
(* fields.                                                                 *)
(***************************************************************************)
C10_LabelNotStored ==
  (called = "search" /\ OneDataRow /\ packages # <<>>
     /\ LET f == RowFields IN Len(f) = 4 /\ f[4] \in LabelWords)
    => \A i \in 1..Len(packages) :
         /\ packages[i].available_version = <<>>
         /\ packages[i].name \notin LabelWords
         /\ packages[i].id \notin LabelWords
         /\ packages[i].version \notin LabelWords
         /\ packages[i].source \notin LabelWords

(***************************************************************************)
(* Vocabulary of the runner and facade claims.                             *)
(***************************************************************************)
\* _run_command has returned to the operation that called it
Ran(t) == pc[t] \in {"ran", "done"}

\* the operation has returned to its caller
Done(t) == pc[t] = "done"

\* a string, not None, of at least one character
NonEmptyString(x) == x # None /\ \E i \in 1..Len(x) : x[i] # <<>>

\* some non-empty line of part shows in text
AppearsIn(part, text) ==
  \E i \in 1..Len(part) : part[i] # <<>> /\ TextContains(part[i], text)

OutcomeOf(o) ==
  IF o.kind = "exit" THEN (IF o.code = 0 THEN "Success" ELSE "NonZeroExit")
  ELSE IF o.kind = "timeout" THEN "TimedOut"
  ELSE IF o.kind = "notfound" THEN "NotFound"
  ELSE IF o.kind = "permission" THEN "PermissionDenied"
  ELSE "OtherFailure"

(***************************************************************************)
(* C11: _run_command never raises to its caller: whatever way the child    *)
(* fails to start or to finish, the call returns a (text, status) pair,    *)
(* and the status is 0 only when the child exited with code 0.             *)
(***************************************************************************)
C11_RunnerNeverRaises ==
  \A t \in Threads :
    /\ pc[t] # "raised"
    /\ Ran(t) =>
         /\ ~ret[t].raised
         /\ ret[t].text # None
         /\ ret[t].status = 0 => (child[t].kind = "exit" /\ child[t].code = 0)

C11_Witness ==
  \E t \in Threads :
    /\ Ran(t)
    /\ child[t].kind = "other"
    /\ ret[t].status # 0
    /\ \E u \in Threads : Ran(u) /\ ret[u].status = 0

(***************************************************************************)
(* C12: the status returned by the runner identifies the outcome: two      *)
(* calls that return the same status ended with the same outcome, so a     *)
(* timeout or a missing executable never has the status of a child that    *)
(* exited with code 1.                                                     *)
(***************************************************************************)
C12_StatusIdentifiesOutcome ==
  \A t, u \in Threads :
    (Ran(t) /\ Ran(u) /\ ret[t].status = ret[u].status)
      => OutcomeOf(child[t]) = OutcomeOf(child[u])

(***************************************************************************)
(* C13: when the child exceeds the timeout the returned text is exactly    *)
(* 'Command timed out', the status is a failure, and nothing the child     *)
(* wrote to stdout or stderr before the timeout shows in the text.         *)
(***************************************************************************)
C13_TimeoutFixedText ==
  \A t \in Threads :
    (Ran(t) /\ child[t].kind = "timeout") =>
      /\ ret[t].text = <<TimedOutMsg>>
      /\ ret[t].status # 0
      /\ ~AppearsIn(child[t].stdout, ret[t].text)
      /\ ~AppearsIn(child[t].stderr, ret[t].text)

C13_Witness ==
  \E t \in Threads :
    /\ Ran(t)
    /\ child[t].kind = "timeout"
    /\ child[t].stdout = TableText
    /\ child[t].stderr = DeniedText
    /\ ret[t].text = <<TimedOutMsg>>

(***************************************************************************)
(* C14: the returned text is stdout followed by a section marked 'STDERR:' *)
(* that holds stderr exactly when the exit code is not 0 and stderr is not *)
(* empty; in every other completed run it is stdout alone.                 *)
(***************************************************************************)
C14_StderrSectionIffFailure ==
  \A t \in Threads :
    (Ran(t) /\ child[t].kind = "exit") =>
      LET c == child[t]
          text == ret[t].text
      IN IF c.code # 0 /\ c.stderr # EmptyText
         THEN /\ Len(text) = Len(c.stdout) + Len(c.stderr)
              /\ SubSeq(text, 1, Len(c.stdout)) = c.stdout
              /\ text[Len(c.stdout) + 1] = StderrMarker \o c.stderr[1]
              /\ SubSeq(text, Len(c.stdout) + 2, Len(text)) = Tail(c.stderr)
         ELSE /\ text = c.stdout
              /\ ~TextContains(StderrMarker, text)

C14_Witness ==
  \E t \in Threads :
    /\ Ran(t)
    /\ child[t].kind = "exit"
    /\ child[t].code # 0
    /\ child[t].stderr = DeniedText
    /\ TextContains(StderrMarker, ret[t].text)
    /\ \E u \in Threads :
         /\ Ran(u)
         /\ child[u].kind = "exit"
         /\ child[u].code = 0
         /\ child[u].stderr = DeniedText
         /\ ret[u].text = child[u].stdout

(***************************************************************************)
(* C15: list_installed, search and check_for_updates, when the runner's    *)
(* status is not 0, return no records and a non-empty error string and do  *)
(* not run the parser; the error is the runner's text when that holds      *)
(* 'Error' or 'Permission', else 'Command failed with return code N'.      *)
(***************************************************************************)
C15_FetchFailure ==
  \A t \in Threads :
    (Done(t) /\ op[t] \in FetchOps /\ ret[t].status # 0) =>
      LET r == result[t]
          text == ret[t].text
      IN /\ r.packages = <<>>
         /\ ~r.parsed
         /\ NonEmptyString(r.error)
         /\ r.error = IF TextContains(ErrorWord, text) \/ TextContains(PermissionWord, text)
                      THEN text
                      ELSE << CommandFailed \o IntToStr(ret[t].status) >>

C15_Witness ==
  \E t \in Threads :
    /\ Done(t)
    /\ op[t] = "list_installed"
    /\ child[t].kind = "exit"
    /\ child[t].stdout = TableText
    /\ ret[t].status = 2
    /\ result[t].packages = <<>>
    /\ result[t].error = << CommandFailed \o <<"2">> >>
    /\ \E u \in Threads :
         /\ Done(u)
         /\ op[u] = "search"
         /\ child[u].kind = "permission"
         /\ result[u].error = <<PermissionMsg>>

(***************************************************************************)
(* C16: list_installed, search and check_for_updates return the error None *)
(* whenever the child exited with code 0, also when the parser yields no   *)
(* record; an error is returned only with a status that is not 0.          *)
(***************************************************************************)
C16_EmptyIsNotAnError ==
  \A t \in Threads :
    (Done(t) /\ op[t] \in FetchOps) =>
      /\ (child[t].kind = "exit" /\ child[t].code = 0)
           => (result[t].error = None /\ result[t].parsed)
      /\ result[t].error # None => ret[t].status # 0

C16_Witness ==
  \E t \in Threads :
    /\ Done(t)
    /\ op[t] = "check_for_updates"
    /\ child[t].kind = "exit"
    /\ child[t].code = 0
    /\ child[t].stdout = NoPackageText
    /\ result[t].packages = <<>>
    /\ result[t].error = None

(***************************************************************************)
(* C17: install, uninstall and upgrade return (True, None) exactly when    *)
(* the runner's status is 0 and (False, a non-empty error string)          *)
(* otherwise; the result is fixed by the operation, the status and the     *)
(* text, and the output is never parsed into records.                      *)
(***************************************************************************)
C17_MutatingResult ==
  \A t \in Threads :
    (Done(t) /\ op[t] \in MutatingOps) =>
      /\ IF ret[t].status = 0
         THEN result[t].success /\ result[t].error = None
         ELSE ~result[t].success /\ NonEmptyString(result[t].error)
      /\ ~result[t].parsed
      /\ \A u \in Threads :
           (Done(u) /\ op[u] = op[t] /\ ret[u].status = ret[t].status
              /\ ret[u].text = ret[t].text)
             => result[u] = result[t]

C17_Witness ==
  \E t \in Threads :
    /\ Done(t)
    /\ op[t] = "install"
    /\ ret[t].status = 2
    /\ ~result[t].success
    /\ \E u \in Threads :
         /\ Done(u)
         /\ op[u] = "uninstall"
         /\ ret[u].status = 0
         /\ child[u].kind = "exit"
         /\ child[u].stdout = TableText
         /\ result[u].success

(***************************************************************************)
(* C18, as stated: every call of a facade operation has spawned exactly    *)
(* one child process when it returns.                                      *)
(***************************************************************************)
C18_ExactlyOneChild == \A t \in Threads : Done(t) => spawned[t] = 1

(***************************************************************************)
(* C18, amended: every call of a facade operation calls subprocess.run     *)
(* once and never again, whatever the outcome; that call spawns one child  *)
(* process when the child exits or times out, and none when the executable *)
(* is missing or may not be executed.                                      *)
(***************************************************************************)
C18_OneRunNoRetry ==
  \A t \in Threads :
    /\ runs[t] <= 1
    /\ spawned[t] <= runs[t]
    /\ Ran(t) =>
         /\ runs[t] = 1
         /\ child[t].kind \in {"exit", "timeout"} => spawned[t] = 1
         /\ child[t].kind \in {"notfound", "permission"} => spawned[t] = 0

C18_Witness ==
  \E t \in Threads :
    /\ Done(t)
    /\ child[t].kind = "notfound"
    /\ ret[t].status # 0
    /\ runs[t] = 1
    /\ spawned[t] = 0
    /\ \E u \in Threads :
         /\ Done(u)
         /\ child[u].kind = "timeout"
         /\ runs[u] = 1
         /\ spawned[u] = 1

(***************************************************************************)
(* C19: the client holds no shared mutable state: under every interleaving *)
(* of calls on different worker threads each call returns what it returns  *)
(* when run alone with the same outcome of its child, and no call changes  *)
(* a field of the client.                                                  *)
(***************************************************************************)
C19_CallsDoNotInterfere ==
  /\ winget_exe = winget
  /\ \A t \in Threads :
       /\ Ran(t) => ret[t] = RunCommand(child[t])
       /\ Done(t) =>
            LET alone == RunCommand(child[t])
            IN result[t] = FacadeResult(op[t], alone.text, alone.status)

C19_Witness ==
  \E t, u \in Threads :
    /\ t # u
    /\ Done(t)
    /\ Done(u)
    /\ op[t] = op[u]
    /\ child[t] # child[u]
    /\ result[t] # result[u]

C25_ThreeFieldsAnyLine ==
  (called \in {"list", "search"} /\ OneDataRow) =>
    LET f == RowFields
    IN Len(f) = 3 =>
         packages = << [name |-> f[1], id |-> f[2], version |-> f[3],
                        source |-> <<"w", "i", "n", "g", "e", "t">>,
                        available_version |-> <<>>] >>

(***************************************************************************)
(* C25, amended: a data line with exactly three fields (single spaces      *)
(* inside a field, no other whitespace) that is at least ten characters    *)
(* long and does not begin with a spinner character yields a record with   *)
(* source 'winget' and an empty availableVersion.                          *)
(***************************************************************************)
C25_ThreeFields ==
  (called \in {"list", "search"} /\ OneDataRow /\ ~Excluded(Row) /\ SpacesOnly(Row)) =>
    LET f == RowFields
    IN Len(f) = 3 =>
         packages = << [name |-> f[1], id |-> f[2], version |-> f[3],
                        source |-> <<"w", "i", "n", "g", "e", "t">>,
                        available_version |-> <<>>] >>

C25_Witness ==
  /\ called = "search"
  /\ OneDataRow
  /\ ~Excluded(Row)
  /\ Len(RowFields) = 3
  /\ RowFields[1] = Zip
  /\ Len(packages) = 1
  /\ packages[1].source = winget
  /\ packages[1].available_version = <<>>

(***************************************************************************)
(* C26: after a timeout or with a missing executable every facade          *)
(* operation returns its generic '... failed with return code 1' text and  *)
(* the runner's own message does not reach the caller; the messages for a  *)
(* denied permission and for any other exception are returned verbatim.    *)
(***************************************************************************)
GenericFailure(o) ==
  << (IF o = "install" THEN InstallationFailed
      ELSE IF o = "uninstall" THEN UninstallationFailed
      ELSE IF o = "upgrade" THEN UpgradeFailed
      ELSE CommandFailed) \o <<"1">> >>

C26_RunnerMessagesLost ==
  \A t \in Threads :
    Done(t) =>
      /\ child[t].kind \in {"timeout", "notfound"} =>
           /\ result[t].error = GenericFailure(op[t])
           /\ ~TextContains(TimedOutMsg, result[t].error)
           /\ ~TextContains(NotFoundMsg, result[t].error)
      /\ child[t].kind = "permission" => result[t].error = <<PermissionMsg>>
      /\ child[t].kind = "other" =>
           result[t].error = << ErrorPrefix \o child[t].e[1] >>

C26_Witness ==
  \E t, u \in Threads :
    /\ Done(t)
    /\ Done(u)
    /\ child[t].kind = "timeout"
    /\ op[t] = "install"
    /\ result[t].error = << InstallationFailed \o <<"1">> >>
    /\ child[u].kind = "permission"
    /\ result[u].error = <<PermissionMsg>>

(***************************************************************************)
(* The application: filtering, fetching, selecting, starting workers.      *)
(***************************************************************************)
\* the records of data in which the query typed as value occurs, in the order
\* of data
Matching(value, data) ==
  SelectSeq(data, LAMBDA pkg : UpdatesMatch(Lower(Strip(value)), pkg))

\* C22: the installed table shows exactly the fetched records in which the
\* lower-cased, trimmed query occurs in the lower-cased name, id, version,
\* available version or source, in fetched order
C22_FilterMatchesFiveFields ==
  installed_table = InstalledRows(Matching(installed_search_input, installed_packages_data))

C29_LatestStartedWins ==
  ((\A w \in Workers : workers[w].kind # "fetch_installed") /\ latest_fetch.state = "done") =>
    /\ installed_packages_data = latest_fetch.packages
    /\ installed_table = FilterInstalled(installed_search_input, latest_fetch.packages)

\* C30: when check_table_selections has just run and the uninstall button is
\* then pressed, the id handed to the uninstall worker is the id shown in the
\* row under the cursor of the installed table
C30_PassedIdIsUnderCursor ==
  [][(/\ event.handler = "check_table_selections"
      /\ event'.handler = "on_button_pressed"
      /\ event'.id = "uninstall-btn"
      /\ event'.started)
     => \E w \in Workers :
          /\ workers[w].kind = "idle"
          /\ workers'[w].kind = "uninstall"
          /\ workers'[w].package_id = CursorId(installed_table, installed_cursor_row)]_vars

\* the ids of the records of a fetched list, in the order of the list
Ids(data) == [i \in 1..Len(data) |-> data[i].id]

IsPrefix(s, t) == Len(s) <= Len(t) /\ \A i \in 1..Len(s) : s[i] = t[i]

\* C21: the upgrade-all worker is started with the ids of the records of the
\* update list last fetched; each of its steps calls upgrade for the next id
\* of that list, whether the upgrade before failed or not; when it has
\* finished without being cancelled, every id has been upgraded once, the
\* success count and the failure count add up to the number of records and
\* there is one error entry for each failure
C21_UpgradeAllOncePerRecord ==
  [][\A w \in Workers :
       workers'[w].kind = "upgrade_all" =>
         /\ workers[w].kind # "upgrade_all" =>
              /\ workers'[w].package_ids = Ids(updates_data)
              /\ workers'[w].upgraded = <<>>
         /\ workers[w].kind = "upgrade_all" =>
              /\ workers'[w].package_ids = workers[w].package_ids
              /\ \/ workers'[w].upgraded = workers[w].upgraded
                 \/ /\ workers[w].state = "running"
                    /\ workers'[w].upgraded =
                         Append(workers[w].upgraded,
                                workers[w].package_ids[Len(workers[w].upgraded) + 1])
         /\ IsPrefix(workers'[w].upgraded, workers'[w].package_ids)
         /\ workers'[w].success_count + workers'[w].fail_count = Len(workers'[w].upgraded)
         /\ Len(workers'[w].errors) = workers'[w].fail_count
         /\ (workers'[w].state = "finished" /\ ~workers'[w].cancelled) =>
              workers'[w].upgraded = workers'[w].package_ids]_vars

\* an upgrade-all of two records has finished without being cancelled: the
\* first upgrade failed, the second succeeded
C21_Witness ==
  \E w \in Workers :
    /\ workers[w].kind = "upgrade_all"
    /\ workers[w].state = "finished"
    /\ ~workers[w].cancelled
    /\ Len(workers[w].package_ids) = 2
    /\ workers[w].upgraded = workers[w].package_ids
    /\ workers[w].fail_count = 1
    /\ workers[w].success_count = 1
    /\ workers[w].errors =
         << workers[w].package_ids[1] \o <<":", " ">> \o UpgradeFailed \o <<"1">> >>

\* C27: when the Upgrade All button is pressed while it is enabled, the
\* upgrade-all operation is started, as it is by the key binding
C27_UpgradeAllButtonStarts ==
  (event.handler = "on_button_pressed" /\ event.id = "upgrade-all-btn") =>
    /\ event.started
    /\ \E w \in Workers : workers[w].kind = "upgrade_all"

\* C28: no worker calls install, uninstall or upgrade with an empty id
C28_NoEmptyId ==
  \A w \in Workers :
    /\ workers[w].kind \in {"install", "uninstall", "upgrade"} =>
         workers[w].package_id # <<>>
    /\ workers[w].kind = "upgrade_all" =>
         \A i \in 1..Len(workers[w].upgraded) : workers[w].upgraded[i] # <<>>

\* a press of the search button or Enter in the search input
SearchEvent(e) ==
  \/ e.handler = "on_button_pressed" /\ e.id = "search-btn"
  \/ e.handler = "on_input_submitted" /\ e.id = "search-input"

\* C24: no search worker holds an empty or blank query; a search asked for
\* while the trimmed input is empty leaves the search table as it is and
\* starts no worker
C24_BlankQueryStartsNothing ==
  [][/\ \A w \in Workers :
          workers'[w].kind = "search" =>
            /\ workers'[w].query # <<>>
            /\ Strip(workers'[w].query) = workers'[w].query
     /\ (SearchEvent(event') /\ Strip(search_input) = <<>>) =>
          /\ search_table' = search_table
          /\ workers' = workers
          /\ ~event'.started]_vars

\* Enter or the search button, with a blank input and a table that holds rows
C24_Witness ==
  /\ SearchEvent(event)
  /\ ~event.started
  /\ search_input = <<" ", " ">>
  /\ search_table # <<>>
  /\ \A w \in Workers : workers[w].kind = "idle"

====
